---- MODULE Spec2Model ----
(***************************************************************************)
(* A model of the UNSW handbook loader (backend/src/data/loader): the code *)
(* model (utlis.rs), the requirement tokenizer, parser and evaluator       *)
(* (requirements.rs) and the course catalog with its eligibility query     *)
(* (course.rs).                                                            *)
(*                                                                         *)
(* A Rust String is a sequence of characters, each character a one-element *)
(* TLA+ string; Str(s) is the TLA+ string with the same characters.  An    *)
(* Option is None or Some(v).                                              *)
(***************************************************************************)
EXTENDS Integers, Sequences, FiniteSets, Bags, TLC

VARIABLES
    str_in,     \* SpecStr: the string handed to a string -> code function
    str_out,    \* SpecStr: what that function returned
    lhs,        \* SpecCode: a CourseCode value (Option)
    rhs,        \* SpecCode: a second CourseCode value (Option)
    cmp,        \* SpecCode: the outcome of the last comparison of lhs and rhs
    raw,        \* SpecParse: the raw requirement text, a sequence of words
    req,        \* SpecParse: what Requirements::try_new(raw) returned
    shown,      \* SpecParse: what Requirements::to_string returned
    build,      \* Spec: the build profile (overflow checks on or off)
    courses,    \* Spec: CourseManager.courses, code string -> Course
    query,      \* Spec: the arguments of the last is_eligible call
    result,     \* Spec: what the last is_eligible call returned
    manager     \* SpecProgram: the ProgramManager (Option)

vars ==
    <<str_in, str_out, lhs, rhs, cmp, raw, req, shown, build, courses, query, result,
      manager>>

-----------------------------------------------------------------------------
(* Options, strings and characters *)

None == [some |-> FALSE]

Some(v) == [some |-> TRUE, v |-> v]

RECURSIVE Str(_)
Str(s) == IF s = <<>> THEN "" ELSE Head(s) \o Str(Tail(s))

Last(s) == s[Len(s)]

Front(s) == SubSeq(s, 1, Len(s) - 1)

RECURSIVE Reverse(_)
Reverse(s) == IF s = <<>> THEN <<>> ELSE Append(Reverse(Tail(s)), Head(s))

AsciiUpper ==
    {"A", "B", "C", "D", "E", "F", "G", "H", "I", "J", "K", "L", "M",
     "N", "O", "P", "Q", "R", "S", "T", "U", "V", "W", "X", "Y", "Z"}

AsciiLower ==
    {"a", "b", "c", "d", "e", "f", "g", "h", "i", "j", "k", "l", "m",
     "n", "o", "p", "q", "r", "s", "t", "u", "v", "w", "x", "y", "z"}

AsciiDigit == {"0", "1", "2", "3", "4", "5", "6", "7", "8", "9"}

\* U+0663 ARABIC-INDIC DIGIT THREE: a numeric character (category Nd) that is
\* not ASCII and takes two bytes in UTF-8.
ArabicThree == "<U+0663>"

is_ascii_alphabetic(c) == c \in AsciiUpper \cup AsciiLower

\* char::is_numeric: the Unicode number categories, not only the ASCII digits.
is_numeric(c) == c \in AsciiDigit \cup {ArabicThree}

len_utf8(c) == IF c = ArabicThree THEN 2 ELSE 1

\* str::len: the length in bytes.
RECURSIVE ByteLen(_)
ByteLen(s) == IF s = <<>> THEN 0 ELSE len_utf8(Head(s)) + ByteLen(Tail(s))

\* char::to_digit(10): Some(value) for an ASCII digit only.
to_digit(c) ==
    CASE c = "0" -> Some(0) [] c = "1" -> Some(1) [] c = "2" -> Some(2)
      [] c = "3" -> Some(3) [] c = "4" -> Some(4) [] c = "5" -> Some(5)
      [] c = "6" -> Some(6) [] c = "7" -> Some(7) [] c = "8" -> Some(8)
      [] c = "9" -> Some(9) [] OTHER -> None

-----------------------------------------------------------------------------
(* utlis.rs: ProgramCode *)

ProgramCode_new(code) == [code |-> code]

ProgramCode_to_string(p) == Str(p.code)

\* ProgramCode::from_str: 4 bytes, every character numeric; the array starts
\* as ['0'; 4] and is filled character by character.
ProgramCode_from_str(s) ==
    IF ByteLen(s) # 4 THEN None
    ELSE IF \E i \in 1..Len(s) : ~is_numeric(s[i]) THEN None
    ELSE Some(ProgramCode_new([i \in 1..4 |-> IF i <= Len(s) THEN s[i] ELSE "0"]))

ProgramCode_is_code(s) == ProgramCode_from_str(s).some

-----------------------------------------------------------------------------
(* utlis.rs: CourseCode *)

SchoolFiller == [i \in 1..4 |-> "."]

NumberFiller == [i \in 1..4 |-> "#"]

CourseCode_new(school_code, course_code) ==
    [school_code |-> school_code, course_code |-> course_code,
     num_of_match_school |-> 4, num_of_match_code |-> 4]

new_any_school(school_code) ==
    [school_code |-> school_code, course_code |-> NumberFiller,
     num_of_match_school |-> 4, num_of_match_code |-> 0]

\* char::from_u32 on a u8 value: the character whose code point is n. The
\* code points 48..57 are the digits '0'..'9'; any other code point is
\* written <U+n> with n in decimal (0..9 are control characters).
char_from_u32(n) ==
    IF n \in 48..57 THEN CHOOSE c \in AsciiDigit : to_digit(c) = Some(n - 48)
    ELSE "<U+" \o ToString(n) \o ">"

new_school_with_level(school_code, lvl) ==
    [school_code |-> school_code,
     course_code |-> [NumberFiller EXCEPT ![1] = char_from_u32(lvl)],
     num_of_match_school |-> 4, num_of_match_code |-> 1]

new_any_school_with_level(lvl) ==
    [school_code |-> SchoolFiller,
     course_code |-> [NumberFiller EXCEPT ![1] = char_from_u32(lvl)],
     num_of_match_school |-> 0, num_of_match_code |-> 1]

CourseCode_to_string(c) == Str(c.school_code \o c.course_code)

is_pattern(c) == c.num_of_match_school # 4 \/ c.num_of_match_code # 4

is_course_code(c) == c.num_of_match_school = 4 /\ c.num_of_match_code = 4

\* The outcome of a call that may abort: "ok" with a value, or "panic".
Returned(v) == [kind |-> "ok", v |-> v]

Panicked == [kind |-> "panic"]

\* CourseCode::parse: characters 0..3 fill the school slots when alphabetic
\* (and are skipped otherwise), characters 4.. must be numeric and fill the
\* number slots; writing number slot 4 (the ninth character) is out of bounds.
RECURSIVE parse_loop(_, _, _)
parse_loop(s, i, acc) ==
    IF i > Len(s) THEN Returned(Some(acc))
    ELSE IF i <= 4
         THEN IF is_ascii_alphabetic(s[i])
              THEN parse_loop(s, i + 1,
                     [acc EXCEPT !.school_code[i] = s[i],
                                 !.num_of_match_school = @ + 1])
              ELSE parse_loop(s, i + 1, acc)
    ELSE IF ~is_numeric(s[i]) THEN Returned(None)
    ELSE IF i - 4 > 4 THEN Panicked
    ELSE parse_loop(s, i + 1,
           [acc EXCEPT !.course_code[i - 4] = s[i],
                       !.num_of_match_code = @ + 1])

CourseCode_parse(s) ==
    parse_loop(s, 1, [school_code |-> SchoolFiller, course_code |-> NumberFiller,
                      num_of_match_school |-> 0, num_of_match_code |-> 0])

\* CourseCode::from_str: 8 bytes; characters 0..3 are copied unchecked,
\* characters 4.. must be numeric.
from_str_wrong_len(s) == ByteLen(s) # 8

CourseCode_from_str(s) ==
    IF from_str_wrong_len(s) THEN None
    ELSE IF \E i \in 1..Len(s) : i > 4 /\ ~is_numeric(s[i]) THEN None
    ELSE Some(CourseCode_new(
           [i \in 1..4 |-> IF i <= Len(s) THEN s[i] ELSE "."],
           [i \in 1..4 |-> IF i + 4 <= Len(s) THEN s[i + 4] ELSE "#"]))

CourseCode_is_code(s) == CourseCode_from_str(s).some

\* CourseCode::level: the first number slot as a decimal digit, unwrapped.
level(c) ==
    LET d == to_digit(c.course_code[1])
    IN  IF d.some THEN Returned(d.v) ELSE Panicked

\* CourseCode::adjust_pattern
adjust_pattern(c, num_of_match_school_code, num_of_match_course_code) ==
    IF num_of_match_school_code > 4 \/ num_of_match_course_code > 4 THEN c
    ELSE IF /\ c.num_of_match_code = num_of_match_course_code
            /\ c.num_of_match_school = num_of_match_school_code THEN c
    ELSE
      LET c1 == IF c.num_of_match_code # num_of_match_course_code
                THEN [c EXCEPT
                        !.course_code =
                            [i \in 1..4 |-> IF i - 1 < num_of_match_course_code
                                            THEN c.course_code[i] ELSE "#"],
                        !.num_of_match_code = num_of_match_course_code]
                ELSE c
      IN  IF c1.num_of_match_school # num_of_match_school_code
          THEN [c1 EXCEPT
                  !.school_code =
                      [i \in 1..4 |-> IF i - 1 < num_of_match_school_code
                                      THEN c1.school_code[i] ELSE "."],
                  !.num_of_match_school = num_of_match_school_code]
          ELSE c1

\* impl PartialEq for CourseCode: equal counters compare the display strings;
\* otherwise only the receiver's live slots are compared.
CourseCode_eq(self, other) ==
    IF /\ self.num_of_match_school = other.num_of_match_school
       /\ self.num_of_match_code = other.num_of_match_code
    THEN CourseCode_to_string(self) = CourseCode_to_string(other)
    ELSE /\ \A i \in 1..4 : i <= self.num_of_match_school
                => self.school_code[i] = other.school_code[i]
         /\ \A i \in 1..4 : i <= self.num_of_match_code
                => self.course_code[i] = other.course_code[i]

is_match(self, other) == CourseCode_eq(self, other)

-----------------------------------------------------------------------------
(* requirements.rs: tokens *)

COMMA == [t |-> "COMMA"]

BRACKET(b) == [t |-> "BRACKET", b |-> b]

NUMBER(n) == [t |-> "NUMBER", n |-> n]

KEYWORD(k) == [t |-> "KEYWORD", k |-> k]

OPERATOR(op) == [t |-> "OPERATOR", op |-> op]

PREPOSITION(p) == [t |-> "PREPOSITION", p |-> p]

CODE_COURSE(c) == [t |-> "CODE", kind |-> "COURSE", code |-> c]

CODE_PROGRAM(c) == [t |-> "CODE", kind |-> "PROGRAM", code |-> c]

TEXT(text) == [t |-> "TEXT", text |-> text]

-----------------------------------------------------------------------------
(* requirements.rs: Requirements::clean                                    *)
(*                                                                         *)
(* The raw text is a sequence of words: the pieces the text falls into at  *)
(* white space and at the punctuation clean() pads with spaces or replaces *)
(* ("[", "]", "(", ")", ",", ".", "+", "<br/>" and the line feed).         *)

w_dot == <<".">>

w_plus == <<"+">>

w_br == <<"<", "b", "r", "/", ">">>

w_newline == <<"\n">>

w_Pre_requisites == <<"P", "r", "e", "-", "r", "e", "q", "u", "i", "s", "i", "t", "e", "s", ":">>

w_Pre_requisite == <<"P", "r", "e", "-", "r", "e", "q", "u", "i", "s", "i", "t", "e", ":">>

w_Prerequisites == <<"P", "r", "e", "r", "e", "q", "u", "i", "s", "i", "t", "e", "s", ":">>

w_Prerequisite == <<"P", "r", "e", "r", "e", "q", "u", "i", "s", "i", "t", "e", ":">>

\* The prefixes in the order clean() tries them on a line.
PrerequisitePrefixes == <<w_Pre_requisites, w_Pre_requisite, w_Prerequisites, w_Prerequisite>>

\* .replace(".", " ") and .replace("+", ""): the word disappears;
\* .replace("<br/>", "\n"): the word becomes a line feed.
replace_punctuation(words) ==
    LET kept == SelectSeq(words, LAMBDA w : w # w_dot /\ w # w_plus)
    IN  [i \in 1..Len(kept) |-> IF kept[i] = w_br THEN w_newline ELSE kept[i]]

\* str::lines: the runs of words between line feeds.
RECURSIVE lines(_, _, _)
lines(words, current, acc) ==
    IF words = <<>>
    THEN IF current = <<>> THEN acc ELSE Append(acc, current)
    ELSE IF Head(words) = w_newline
         THEN lines(Tail(words), <<>>, Append(acc, current))
         ELSE lines(Tail(words), Append(current, Head(words)), acc)

\* extract_prerequisite!: a line that starts with the prefix yields the line
\* with every occurrence of the prefix removed.
line_contains(line, prefix) == \E i \in 1..Len(line) : line[i] = prefix

starts_with(line, prefix) == line # <<>> /\ Head(line) = prefix

extract_prerequisite(line, prefix) == SelectSeq(line, LAMBDA w : w # prefix)

\* The first prefix, in the order tried, that the line starts with (0: none).
matching_prefix(line) ==
    IF \E k \in 1..Len(PrerequisitePrefixes) : starts_with(line, PrerequisitePrefixes[k])
    THEN CHOOSE k \in 1..Len(PrerequisitePrefixes) :
           /\ starts_with(line, PrerequisitePrefixes[k])
           /\ \A j \in 1..(k - 1) : ~starts_with(line, PrerequisitePrefixes[j])
    ELSE 0

RECURSIVE clean_lines(_)
clean_lines(ls) ==
    IF ls = <<>> THEN <<>>
    ELSE IF matching_prefix(Head(ls)) # 0
         THEN extract_prerequisite(Head(ls), PrerequisitePrefixes[matching_prefix(Head(ls))])
         ELSE clean_lines(Tail(ls))

clean(raw_requirements) == clean_lines(lines(replace_punctuation(raw_requirements), <<>>, <<>>))

-----------------------------------------------------------------------------
(* requirements.rs: Requirements::tokenize *)

\* str::parse::<u8>: decimal digits with a value of at most 255.
RECURSIVE decimal_value(_, _)
decimal_value(word, acc) ==
    IF word = <<>> THEN acc
    ELSE decimal_value(Tail(word), 10 * acc + to_digit(Head(word)).v)

U8Max == 255

parse_u8(word) ==
    IF word = <<>> \/ \E i \in 1..Len(word) : word[i] \notin AsciiDigit THEN None
    ELSE IF decimal_value(word, 0) > U8Max THEN None
    ELSE Some(decimal_value(word, 0))

\* The sub-scan after the word TEXT: words are dropped up to a "[", then kept
\* up to the next "]"; a further "[" is skipped.
RECURSIVE text_scan(_, _, _)
text_scan(words, start, str) ==
    IF words = <<>> THEN [str |-> str, words |-> words]
    ELSE IF Str(Head(words)) = "[" THEN text_scan(Tail(words), TRUE, str)
    ELSE IF start /\ Str(Head(words)) = "]" THEN [str |-> str, words |-> Tail(words)]
    ELSE IF start THEN text_scan(Tail(words), start, Append(str, Str(Head(words))))
    ELSE text_scan(Tail(words), start, str)

\* Vec<String>::join
RECURSIVE join(_, _)
join(strs, sep) ==
    IF strs = <<>> THEN ""
    ELSE IF Len(strs) = 1 THEN strs[1]
    ELSE strs[1] \o sep \o join(Tail(strs), sep)

\* The last arm of the match: a course code, else a program code, else a
\* number, else nothing.
push_code_or_number(tokens, word) ==
    IF CourseCode_is_code(word)
    THEN Append(tokens, CODE_COURSE(CourseCode_from_str(word).v))
    ELSE IF ProgramCode_is_code(word)
    THEN Append(tokens, CODE_PROGRAM(ProgramCode_from_str(word).v))
    ELSE IF parse_u8(word).some
    THEN Append(tokens, NUMBER(parse_u8(word).v))
    ELSE tokens

\* The token of a word one of the fixed arms matches (None: the last arm).
keyword_token(w) ==
    CASE w \in {"or", "OR", "Or"} -> Some(OPERATOR("OR"))
      [] w \in {"and", "AND", "And"} -> Some(OPERATOR("AND"))
      [] w \in {"UOC", "uoc", "Uoc", "UOCs"} -> Some(KEYWORD("UOC"))
      [] w \in {"WAM", "wam", "Wam"} -> Some(KEYWORD("WAM"))
      [] w \in {"at", "AT"} -> Some(PREPOSITION("AT"))
      [] w \in {"from", "FROM"} -> Some(PREPOSITION("FROM"))
      [] w \in {"of", "OF"} -> Some(PREPOSITION("OF"))
      [] w \in {"level", "LEVEL"} -> Some(KEYWORD("LEVEL"))
      [] w = "," -> Some(COMMA)
      [] w = "(" -> Some(BRACKET("OPEN"))
      [] w = ")" -> Some(BRACKET("CLOSE"))
      [] OTHER -> None

RECURSIVE tokenize_loop(_, _)
tokenize_loop(words, tokens) ==
    IF words = <<>> THEN tokens
    ELSE IF keyword_token(Str(Head(words))).some
    THEN tokenize_loop(Tail(words), Append(tokens, keyword_token(Str(Head(words))).v))
    ELSE IF Str(Head(words)) = "TEXT"
    THEN LET scan == text_scan(Tail(words), FALSE, <<>>)
         IN  tokenize_loop(scan.words,
               push_code_or_number(Append(tokens, TEXT(join(scan.str, " "))), Head(words)))
    ELSE tokenize_loop(Tail(words), push_code_or_number(tokens, Head(words)))

tokenize(raw_requirements) == tokenize_loop(raw_requirements, <<>>)

-----------------------------------------------------------------------------
(* requirements.rs: the nodes of the requirement tree *)

ListNode(nodes) == [k |-> "List", nodes |-> nodes]

BinaryNode_new(left, right, operator) ==
    [k |-> "Binary", left |-> left, right |-> right, operator |-> operator]

UOCAtLevelNode(uoc, lvl) == [k |-> "UOCAtLevel", uoc |-> uoc, level |-> lvl]

UOCFromNode(uoc, code) == [k |-> "UOCFrom", uoc |-> uoc, code |-> code]

UOCNode(uoc) == [k |-> "UOC", uoc |-> uoc]

WamNode(wam) == [k |-> "WAM", wam |-> wam]

TextNode(text) == [k |-> "Text", text |-> text]

CodeNode(token) == [k |-> "Code", kind |-> token.kind, code |-> token.code]

\* Node::get: the canonical rendering.
RECURSIVE get(_)
get(node) ==
    CASE node.k = "List" ->
           "Require all of following conditions: "
             \o join([i \in 1..Len(node.nodes) |-> get(node.nodes[i])], ", ")
      [] node.k = "Binary" ->
           "(" \o get(node.left) \o " "
               \o (IF node.operator = "AND" THEN "and" ELSE "or")
               \o " " \o get(node.right) \o ")"
      [] node.k = "UOCAtLevel" ->
           "Complete " \o ToString(node.uoc) \o " UOC at level " \o ToString(node.level)
      [] node.k = "UOCFrom" ->
           "Complete " \o ToString(node.uoc) \o " UOC from following course ["
             \o join([i \in 1..Len(node.code) |-> CourseCode_to_string(node.code[i])], ", ")
             \o "]"
      [] node.k = "UOC" -> "Complete at least " \o ToString(node.uoc) \o " UOC"
      [] node.k = "WAM" -> "WAM of at least " \o ToString(node.wam)
      [] node.k = "Text" -> node.text
      [] node.k = "Code" ->
           IF node.kind = "COURSE" THEN CourseCode_to_string(node.code)
           ELSE ProgramCode_to_string(node.code)

-----------------------------------------------------------------------------
(* requirements.rs: Requirements::parse and the sub-parsers                *)
(*                                                                         *)
(* A token vector is used as a stack: parse() reverses it and do_parse()   *)
(* pops from its end.                                                      *)

Ok(node) == [ok |-> TRUE, node |-> node]

Err(e) == [ok |-> FALSE, err |-> e]

\* Node::parse of a sub-parser: the node and the tokens it left.
Parsed(node, tokens) == [ok |-> TRUE, node |-> node, tokens |-> tokens]

\* UOCAtLevelNode::parse
UOCAtLevelNode_parse(uoc, tokens) ==
    LET t1 == IF tokens = <<>> THEN tokens ELSE Front(tokens)
    IN  IF t1 = <<>> THEN Err("UOC-2A")
        ELSE IF Last(t1).t # "KEYWORD" THEN Err("UOC-2E")
        ELSE IF Last(t1).k # "LEVEL" THEN Err("UOC-2D")
        ELSE IF Front(t1) = <<>> THEN Err("UOC-2B")
        ELSE IF Last(Front(t1)).t # "NUMBER" THEN Err("UOC-2C")
        ELSE Parsed(UOCAtLevelNode(uoc, Last(Front(t1)).n), Front(Front(t1)))

\* UOCFromNode::parse: the loop after the FROM has been popped.
RECURSIVE uoc_from_loop(_, _)
uoc_from_loop(tokens, code) ==
    IF tokens = <<>> THEN [ok |-> TRUE, code |-> code, tokens |-> tokens]
    ELSE LET token == Last(tokens)
         IN  CASE token.t = "CODE" ->
                    IF token.kind = "COURSE"
                    THEN uoc_from_loop(Front(tokens), Append(code, token.code))
                    ELSE Err("UOC-4")
               [] token.t = "OPERATOR" ->
                    IF token.op = "OR"
                    THEN uoc_from_loop(Front(tokens), code)
                    ELSE [ok |-> TRUE, code |-> code, tokens |-> Front(tokens)]
               [] OTHER -> Err("UOC-6")

UOCFromNode_parse(uoc, tokens) ==
    LET r == uoc_from_loop(IF tokens = <<>> THEN tokens ELSE Front(tokens), <<>>)
    IN  IF ~r.ok THEN r
        ELSE IF Len(r.code) = 0 THEN Err("UOC-3A")
        ELSE Parsed(UOCFromNode(uoc, r.code), r.tokens)

\* WamNode::parse, on a WamNode::new(0)
WamNode_parse(tokens) ==
    IF tokens = <<>> THEN Err("WAM-1")
    ELSE IF ~(Last(tokens).t = "PREPOSITION" /\ Last(tokens).p = "OF") THEN Err("WAM-2")
    ELSE IF Front(tokens) = <<>> THEN Err("WAM-3")
    ELSE Parsed(WamNode(IF Last(Front(tokens)).t = "NUMBER"
                        THEN Last(Front(tokens)).n ELSE 0),
                Front(Front(tokens)))

\* The right operand of an operator: the tokens popped up to the next COMMA
\* (which is pushed back) or to the end.
RECURSIVE take_until_comma(_, _)
take_until_comma(tokens, sub_tokens) ==
    IF tokens = <<>> THEN [sub_tokens |-> sub_tokens, tokens |-> tokens]
    ELSE IF Last(tokens).t = "COMMA" THEN [sub_tokens |-> sub_tokens, tokens |-> tokens]
    ELSE take_until_comma(Front(tokens), Append(sub_tokens, Last(tokens)))

right_operand_single(tokens) ==
    IF tokens = <<>> \/ Last(tokens).t = "COMMA"
    THEN [sub_tokens |-> <<>>, tokens |-> tokens]
    ELSE [sub_tokens |-> <<Last(tokens)>>, tokens |-> Front(tokens)]

right_operand_slice(tokens) == take_until_comma(tokens, <<>>)

\* The tokens of a bracket: popped until the bracket count returns to 0,
\* the closing bracket included.
RECURSIVE scan_bracket(_, _, _)
scan_bracket(tokens, num_bracket, sub_token) ==
    IF num_bracket = 0 THEN [ok |-> TRUE, sub_token |-> sub_token, tokens |-> tokens]
    ELSE IF tokens = <<>> THEN Err("BRA-1")
    ELSE LET token == Last(tokens)
             n == IF token.t = "BRACKET"
                  THEN IF token.b = "OPEN" THEN num_bracket + 1 ELSE num_bracket - 1
                  ELSE num_bracket
         IN  scan_bracket(Front(tokens), n, Append(sub_token, token))

\* The end of do_parse: what is left of parsed_node becomes the tree.
reduce_first_only(parsed_node) ==
    IF Len(parsed_node) >= 1 THEN Ok(Some(parsed_node[1])) ELSE Ok(None)

reduce(parsed_node) ==
    IF Len(parsed_node) = 1 THEN Ok(Some(parsed_node[1]))
    ELSE IF Len(parsed_node) > 1 THEN Ok(Some(ListNode(parsed_node)))
    ELSE Ok(None)

\* After the loop: the buffer is flushed into parsed_node.
end_of_input(buffer, parsed_node) ==
    IF Len(buffer) = 1 THEN reduce(Append(parsed_node, buffer[1]))
    ELSE IF Len(buffer) > 1 THEN Err("COM-1")
    ELSE reduce(parsed_node)

\* A vector whose last token is read and left in place.
pop_leaves_token(tokens) == [token |-> Last(tokens), tokens |-> tokens]

\* Vec::pop on a vector that is not empty: the last token and the tokens left.
pop(tokens) == [token |-> Last(tokens), tokens |-> Front(tokens)]

\* What one iteration of the loop of do_parse does: it goes on with the next
\* iteration, it returns, or it calls Requirements::parse on sub-tokens and
\* goes on after the call.
Continue(tokens, buffer, parsed_node) ==
    [step |-> "continue", tokens |-> tokens, buffer |-> buffer, parsed_node |-> parsed_node]

Return(parsed) == [step |-> "return", result |-> parsed]

Recurse(sub_tokens, tokens, buffer, parsed_node, site) ==
    [step |-> "recurse", sub_tokens |-> sub_tokens, tokens |-> tokens, buffer |-> buffer,
     parsed_node |-> parsed_node, site |-> site]

\* An operator without a left operand that ends the parse with an error.
operator_without_left_fails(tokens, buffer, parsed_node) == Return(Err("BIN-1"))

\* The operator arm with an empty buffer: a warning, and the next iteration.
operator_without_left(tokens, buffer, parsed_node) == Continue(tokens, buffer, parsed_node)

\* One iteration of the loop of do_parse on the popped token.
do_parse_step(tokens, buffer, parsed_node) ==
    IF tokens = <<>> THEN Return(end_of_input(buffer, parsed_node))
    ELSE
    LET token == pop(tokens).token
        rest == pop(tokens).tokens
    IN
    CASE token.t = "TEXT" ->
           Continue(rest, Append(buffer, TextNode(token.text)), parsed_node)
      [] token.t = "CODE" ->
           Continue(rest, Append(buffer, CodeNode(token)), parsed_node)
      [] token.t = "OPERATOR" ->
           IF Len(buffer) = 1
           THEN LET slice == right_operand_slice(rest)
                IN  Recurse(slice.sub_tokens, slice.tokens, buffer, parsed_node,
                            [kind |-> "right", operator |-> token.op])
           ELSE IF Len(buffer) = 0 THEN operator_without_left(rest, buffer, parsed_node)
           ELSE Return(Err("BIN-1"))
      [] token.t = "NUMBER" ->
           IF rest = <<>> THEN Return(end_of_input(buffer, parsed_node))
           ELSE
           LET next == Last(rest)
               rest2 == Front(rest)
           IN  IF next.t # "KEYWORD" THEN Continue(rest2, buffer, parsed_node)
               ELSE IF next.k = "UOC"
               THEN IF rest2 = <<>>
                    THEN Continue(rest2, Append(buffer, UOCNode(token.n)), parsed_node)
                    ELSE IF Last(rest2).t = "PREPOSITION" /\ Last(rest2).p = "FROM"
                    THEN LET r == UOCFromNode_parse(token.n, rest2)
                         IN  IF ~r.ok THEN Return(r)
                             ELSE Continue(r.tokens, Append(buffer, r.node), parsed_node)
                    ELSE IF Last(rest2).t = "PREPOSITION" /\ Last(rest2).p = "AT"
                    THEN LET r == UOCAtLevelNode_parse(token.n, rest2)
                         IN  IF ~r.ok THEN Return(r)
                             ELSE Continue(r.tokens, Append(buffer, r.node), parsed_node)
                    ELSE Continue(rest2, buffer, parsed_node)
               ELSE IF next.k = "WAM"
               THEN Continue(rest2, Append(buffer, WamNode(token.n)), parsed_node)
               ELSE Continue(rest2, buffer, parsed_node)
      [] token.t = "COMMA" ->
           IF Len(buffer) = 1
           THEN Continue(rest, <<>>, Append(parsed_node, buffer[1]))
           ELSE IF Len(buffer) > 1 THEN Return(Err("COM-1"))
           ELSE Continue(rest, buffer, parsed_node)
      [] token.t = "BRACKET" ->
           LET scan == scan_bracket(rest, 1, <<>>)
           IN  IF ~scan.ok THEN Return(scan)
               ELSE Recurse(Front(scan.sub_token), scan.tokens, buffer, parsed_node,
                            [kind |-> "bracket"])
      [] token.t = "KEYWORD" ->
           IF token.k = "WAM"
           THEN LET r == WamNode_parse(rest)
                IN  IF ~r.ok THEN Return(r)
                    ELSE Continue(r.tokens, Append(buffer, r.node), parsed_node)
           ELSE Continue(rest, buffer, parsed_node)
      [] OTHER -> Continue(rest, buffer, parsed_node)

\* The rest of the iteration after the call of Requirements::parse returned
\* node: `?` returns an error; a right operand makes a binary node with the
\* buffered left operand, a bracket pushes its node.
resume(call, node) ==
    IF ~node.ok THEN Return(node)
    ELSE IF call.site.kind = "right"
    THEN IF ~node.node.some
         THEN Continue(call.tokens, <<call.buffer[1]>>, call.parsed_node)
         ELSE Continue(call.tokens,
                       <<BinaryNode_new(call.buffer[1], node.node.v, call.site.operator)>>,
                       call.parsed_node)
    ELSE IF node.node.some
         THEN Continue(call.tokens, Append(call.buffer, node.node.v), call.parsed_node)
         ELSE Continue(call.tokens, call.buffer, call.parsed_node)

RECURSIVE parse(_)
RECURSIVE do_parse_loop(_, _, _)

\* What follows one iteration: the function returns, or the loop goes on.
next_iteration(after) ==
    IF after.step = "return" THEN after.result
    ELSE do_parse_loop(after.tokens, after.buffer, after.parsed_node)

\* What follows one iteration that may call parse on a slice first.
after_step(s) ==
    IF s.step = "recurse"
    THEN CHOOSE r \in {next_iteration(after) : after \in {resume(s, parse(s.sub_tokens))}} : TRUE
    ELSE next_iteration(s)

\* The loop of do_parse: iterations until one returns. Each iteration's
\* outcome is computed once, as a member of a one-element set.
do_parse_loop(tokens, buffer, parsed_node) ==
    CHOOSE r \in {after_step(s) : s \in {do_parse_step(tokens, buffer, parsed_node)}} : TRUE

do_parse(tokens) ==
    IF Len(tokens) = 0 THEN Ok(None) ELSE do_parse_loop(tokens, <<>>, <<>>)

parse(tokens) == do_parse(Reverse(tokens))

\* Requirements::try_new: None when parse fails.
try_new(raw_requirements) ==
    LET node == parse(tokenize(clean(raw_requirements)))
    IN  IF ~node.ok THEN None
        ELSE Some([contents |-> node.node, raw |-> raw_requirements])

\* impl Display for Requirements
Requirements_to_string(r) == IF ~r.contents.some THEN "" ELSE get(r.contents.v)

-----------------------------------------------------------------------------
(* course.rs / requirements.rs: the evaluator                                *)
(*                                                                           *)
(* A Result<bool, String> is OkBool(b) or ErrMsg(msg); a call that aborts    *)
(* is Panic. The build profile decides what an overflowing u8 addition does. *)

OkBool(b) == [r |-> "Ok", b |-> b]

ErrMsg(msg) == [r |-> "Err", msg |-> msg]

Panic == [r |-> "panic"]

\* sum += uoc on u8: aborts where overflow checks are compiled in, wraps
\* where they are not.
add_u8(profile, sum, uoc) ==
    IF sum + uoc <= U8Max THEN Returned(sum + uoc)
    ELSE IF profile = "debug" THEN Panicked
    ELSE Returned((sum + uoc) % (U8Max + 1))

\* Course::uoc
Course_uoc(course) == course.uoc

\* CourseManager::get_course
get_course(course_manager, course_code) ==
    IF ~is_course_code(course_code)
    THEN ErrMsg("Expect a specific course code, rather than "
                  \o CourseCode_to_string(course_code))
    ELSE IF CourseCode_to_string(course_code) \notin DOMAIN course_manager
    THEN ErrMsg(CourseCode_to_string(course_code) \o " cannot found in dataset")
    ELSE [r |-> "Ok", course |-> course_manager[CourseCode_to_string(course_code)]]

not_a_course_code(course) == ErrMsg("Given " \o Str(course) \o " is not a Course Code")

\* The body of the three summing loops for one taken course that counts.
add_course(profile, course_manager, course_code, sum) ==
    LET found == get_course(course_manager, course_code)
    IN  IF found.r = "Err" THEN found
        ELSE LET s == add_u8(profile, sum, Course_uoc(found.course))
             IN  IF s.kind = "panic" THEN Panic ELSE [r |-> "Ok", sum |-> s.v]

\* UOCNode::evulate: the loop over the taken courses.
RECURSIVE UOCNode_sum(_, _, _, _)
UOCNode_sum(profile, course_manager, taken_course, sum) ==
    IF taken_course = <<>> THEN [r |-> "Ok", sum |-> sum]
    ELSE LET course_code == CourseCode_from_str(Head(taken_course))
         IN  IF ~course_code.some THEN not_a_course_code(Head(taken_course))
             ELSE LET added == add_course(profile, course_manager, course_code.v, sum)
                  IN  IF added.r # "Ok" THEN added
                      ELSE UOCNode_sum(profile, course_manager, Tail(taken_course), added.sum)

\* UOCAtLevelNode::evulate: the loop over the taken courses.
RECURSIVE UOCAtLevelNode_sum(_, _, _, _, _)
UOCAtLevelNode_sum(profile, course_manager, node, taken_course, sum) ==
    IF taken_course = <<>> THEN [r |-> "Ok", sum |-> sum]
    ELSE LET course_code == CourseCode_from_str(Head(taken_course))
         IN  IF ~course_code.some THEN not_a_course_code(Head(taken_course))
             ELSE IF level(course_code.v).kind = "panic" THEN Panic
             ELSE IF level(course_code.v).v # node.level
             THEN UOCAtLevelNode_sum(profile, course_manager, node, Tail(taken_course), sum)
             ELSE LET added == add_course(profile, course_manager, course_code.v, sum)
                  IN  IF added.r # "Ok" THEN added
                      ELSE UOCAtLevelNode_sum(profile, course_manager, node,
                                              Tail(taken_course), added.sum)

\* UOCFromNode::evulate: the loop over the taken courses.
RECURSIVE UOCFromNode_sum(_, _, _, _, _)
UOCFromNode_sum(profile, course_manager, node, taken_course, sum) ==
    IF taken_course = <<>> THEN [r |-> "Ok", sum |-> sum]
    ELSE LET course_code == CourseCode_from_str(Head(taken_course))
         IN  IF ~course_code.some THEN not_a_course_code(Head(taken_course))
             ELSE IF ~\E i \in 1..Len(node.code) : CourseCode_eq(node.code[i], course_code.v)
             THEN UOCFromNode_sum(profile, course_manager, node, Tail(taken_course), sum)
             ELSE LET added == add_course(profile, course_manager, course_code.v, sum)
                  IN  IF added.r # "Ok" THEN added
                      ELSE UOCFromNode_sum(profile, course_manager, node,
                                           Tail(taken_course), added.sum)

\* The end of the three UOC evaluations: sum >= self.uoc.
at_least(summed, uoc) == IF summed.r # "Ok" THEN summed ELSE OkBool(summed.sum >= uoc)

WamNode_evulate_strict(node, wam) == OkBool(wam.some /\ wam.v >= node.wam)

\* WamNode::evulate
WamNode_evulate(node, wam) ==
    IF ~wam.some THEN OkBool(TRUE) ELSE OkBool(wam.v >= node.wam)

\* TextNode::evulate
TextNode_evulate(node) == OkBool(TRUE)

CodeNode_evulate_school(node, program_code, taken_course) ==
    IF node.kind = "COURSE"
    THEN OkBool(\E i \in 1..Len(taken_course) :
                  /\ Len(taken_course[i]) >= 4
                  /\ SubSeq(taken_course[i], 1, 4) = node.code.school_code)
    ELSE OkBool(ProgramCode_to_string(program_code) = ProgramCode_to_string(node.code))

\* CodeNode::evulate
CodeNode_evulate(node, program_code, taken_course) ==
    IF node.kind = "COURSE"
    THEN OkBool(\E i \in 1..Len(taken_course) :
                  Str(taken_course[i]) = CourseCode_to_string(node.code))
    ELSE OkBool(ProgramCode_to_string(program_code) = ProgramCode_to_string(node.code))

unwrap_or_true(r) == IF r.r = "Ok" THEN r.b ELSE TRUE

\* Result::unwrap_or(false) in the closure of ListNode::evulate
unwrap_or_false(r) == IF r.r = "Ok" THEN r.b ELSE FALSE

\* A binary node that evaluates both operands before it looks at either.
BinaryNode_evulate_eager(operator, left, right) ==
    IF left.r # "Ok" THEN left
    ELSE IF right.r # "Ok" THEN right
    ELSE IF operator = "AND" THEN OkBool(left.b /\ right.b)
    ELSE OkBool(left.b \/ right.b)

\* BinaryNode::evulate on the results of its operands: the right operand is
\* evaluated (its result looked at) only after the left one has decided nothing.
BinaryNode_evulate(operator, left, right) ==
    IF operator = "AND"
    THEN IF left.r # "Ok" THEN left
         ELSE IF left.b = FALSE THEN OkBool(FALSE)
         ELSE IF right.r # "Ok" THEN right
         ELSE IF right.b = FALSE THEN OkBool(FALSE)
         ELSE OkBool(TRUE)
    ELSE IF left.r # "Ok" THEN left
         ELSE IF left.b = TRUE THEN OkBool(TRUE)
         ELSE IF right.r # "Ok" THEN right
         ELSE IF right.b = TRUE THEN OkBool(TRUE)
         ELSE OkBool(FALSE)

RECURSIVE evulate(_, _, _, _, _, _)
RECURSIVE ListNode_all(_, _, _, _, _, _)

\* ListNode::evulate: Iterator::all stops at the first child that is not true.
ListNode_all(nodes, program_code, taken_course, wam, course_manager, profile) ==
    IF nodes = <<>> THEN OkBool(TRUE)
    ELSE LET r == evulate(Head(nodes), program_code, taken_course, wam,
                          course_manager, profile)
         IN  IF r.r = "panic" THEN Panic
             ELSE IF unwrap_or_false(r)
             THEN ListNode_all(Tail(nodes), program_code, taken_course, wam,
                               course_manager, profile)
             ELSE OkBool(FALSE)

\* Node::evulate of every node
evulate(node, program_code, taken_course, wam, course_manager, profile) ==
    CASE node.k = "List" ->
           ListNode_all(node.nodes, program_code, taken_course, wam, course_manager, profile)
      [] node.k = "Binary" ->
           LET left == evulate(node.left, program_code, taken_course, wam,
                               course_manager, profile)
               right == evulate(node.right, program_code, taken_course, wam,
                                course_manager, profile)
           IN  BinaryNode_evulate(node.operator, left, right)
      [] node.k = "UOCAtLevel" ->
           at_least(UOCAtLevelNode_sum(profile, course_manager, node, taken_course, 0),
                    node.uoc)
      [] node.k = "UOCFrom" ->
           at_least(UOCFromNode_sum(profile, course_manager, node, taken_course, 0),
                    node.uoc)
      [] node.k = "UOC" ->
           at_least(UOCNode_sum(profile, course_manager, taken_course, 0), node.uoc)
      [] node.k = "WAM" -> WamNode_evulate(node, wam)
      [] node.k = "Text" -> TextNode_evulate(node)
      [] node.k = "Code" -> CodeNode_evulate(node, program_code, taken_course)

\* Requirements::is_satisified
is_satisified(requirements, program_code, taken_course, wam, course_manager, profile) ==
    IF ~requirements.contents.some THEN OkBool(TRUE)
    ELSE evulate(requirements.contents.v, program_code, taken_course, wam,
                 course_manager, profile)

is_eligible_fail_closed(course, program_code, taken_course, wam, course_manager, profile) ==
    IF ~course.requirements.some THEN OkBool(FALSE)
    ELSE is_satisified(course.requirements.v, program_code, taken_course, wam,
                       course_manager, profile)

\* Course::is_eligible
is_eligible(course, program_code, taken_course, wam, course_manager, profile) ==
    IF ~course.requirements.some THEN OkBool(TRUE)
    ELSE is_satisified(course.requirements.v, program_code, taken_course, wam,
                       course_manager, profile)

\* Campus::from_str
Campus_from_str(s) ==
    CASE s = "Sydney" -> Some("Sydney")
      [] s = "UNSW Canberra" -> Some("Canberra")
      [] s = "Paddington" -> Some("Paddington")
      [] OTHER -> None

\* Course::new (from_str(code).expect(..) aborts on a code from_str rejects)
Course_new(code, uoc, campus, requirements) ==
    [code |-> CourseCode_from_str(code).v, uoc |-> uoc, campus |-> campus,
     requirements |-> requirements]

\* The closure of parse_from_courses_json: one JSON course to one Course.
parse_json_course(json_course) ==
    LET campus == Campus_from_str(json_course.campus).v
        parsed == try_new(json_course.raw_requirements)
        requirements == IF campus = "Canberra" THEN None
                        ELSE IF json_course.school = "UNSW Global" THEN None
                        ELSE parsed
    IN  Course_new(json_course.code, json_course.UOC, campus, requirements)

\* CourseManager::parse_from_courses_json: the map from code string to Course.
parse_from_courses_json(json_courses) ==
    [key \in {CourseCode_to_string(parse_json_course(j).code) : j \in json_courses} |->
       parse_json_course(CHOOSE j \in json_courses :
                           CourseCode_to_string(parse_json_course(j).code) = key)]

-----------------------------------------------------------------------------
(* SpecStr: the string -> code functions of utlis.rs applied to every string *)
(* of at most MaxStrLen characters over StrChars.                            *)

MaxStrLen == 9

StrChars == {"C", "1", ArabicThree}

NotCalled == [fn |-> "none"]

AppendChar(c) ==
    /\ str_out = NotCalled
    /\ Len(str_in) < MaxStrLen
    /\ str_in' = Append(str_in, c)
    /\ UNCHANGED <<str_out, lhs, rhs, cmp, raw, req, shown, build, courses, query, result,
                 manager>>

CallFromStr ==
    /\ str_out = NotCalled
    /\ str_out' = [fn |-> "from_str", res |-> Returned(CourseCode_from_str(str_in))]
    /\ UNCHANGED <<str_in, lhs, rhs, cmp, raw, req, shown, build, courses, query, result,
                 manager>>

CallIsCode ==
    /\ str_out = NotCalled
    /\ str_out' = [fn |-> "is_code", yes |-> CourseCode_is_code(str_in)]
    /\ UNCHANGED <<str_in, lhs, rhs, cmp, raw, req, shown, build, courses, query, result,
                 manager>>

CallParse ==
    /\ str_out = NotCalled
    /\ str_out' = [fn |-> "parse", res |-> CourseCode_parse(str_in)]
    /\ UNCHANGED <<str_in, lhs, rhs, cmp, raw, req, shown, build, courses, query, result,
                 manager>>

CallProgramFromStr ==
    /\ str_out = NotCalled
    /\ str_out' = [fn |-> "program_from_str", res |-> Returned(ProgramCode_from_str(str_in))]
    /\ UNCHANGED <<str_in, lhs, rhs, cmp, raw, req, shown, build, courses, query, result,
                 manager>>

NoCmp == [done |-> FALSE]

IdleCode == lhs = None /\ rhs = None /\ cmp = NoCmp

IdleStr == str_in = <<>> /\ str_out = NotCalled

IdleParse == raw = <<>> /\ req = NotCalled /\ shown = None

IdleCatalog == build = "none" /\ courses = None /\ query = None /\ result = None

IdleManager == manager = None

StrInit == IdleStr /\ IdleCode /\ IdleParse /\ IdleCatalog /\ IdleManager

StrNext ==
    \/ \E c \in StrChars : AppendChar(c)
    \/ CallFromStr
    \/ CallIsCode
    \/ CallParse
    \/ CallProgramFromStr

SpecStr == StrInit /\ [][StrNext]_vars

-----------------------------------------------------------------------------
(* SpecCode: CourseCode values built by the constructors of utlis.rs, then   *)
(* adjusted and compared.                                                    *)

Schools == {<<"C", "O", "M", "P">>, <<"C", "O", "M", "M">>}

Numbers == {<<"1", "5", "1", "1">>, <<"2", "5", "1", "1">>}

ExactInputs == {s \o n : s \in Schools, n \in Numbers}

\* Every prefix of an exact code string, the empty string included.
PatternInputs == {SubSeq(e, 1, k) : e \in ExactInputs, k \in 0..8}

\* The u8 arguments tried for adjust_pattern: the counters 0..4 and one
\* value beyond them.
CounterArgs == 0..5

\* The u8 levels tried for the level constructors: the levels 0..9 and the
\* code points of the digits '0'..'9'.
LevelArgs == (0..9) \cup (48..57)

ParseLhs(s) ==
    /\ CourseCode_parse(s).kind = "ok"
    /\ CourseCode_parse(s).v.some
    /\ lhs' = CourseCode_parse(s).v
    /\ cmp' = NoCmp
    /\ UNCHANGED <<str_in, str_out, rhs, raw, req, shown, build, courses, query, result,
                 manager>>

NewAnySchoolLhs(school) ==
    /\ lhs' = Some(new_any_school(school))
    /\ cmp' = NoCmp
    /\ UNCHANGED <<str_in, str_out, rhs, raw, req, shown, build, courses, query, result,
                 manager>>

NewSchoolWithLevelLhs(school, lvl) ==
    /\ lhs' = Some(new_school_with_level(school, lvl))
    /\ cmp' = NoCmp
    /\ UNCHANGED <<str_in, str_out, rhs, raw, req, shown, build, courses, query, result,
                 manager>>

NewAnySchoolWithLevelLhs(lvl) ==
    /\ lhs' = Some(new_any_school_with_level(lvl))
    /\ cmp' = NoCmp
    /\ UNCHANGED <<str_in, str_out, rhs, raw, req, shown, build, courses, query, result,
                 manager>>

AdjustLhs(a, b) ==
    /\ lhs.some
    /\ lhs' = Some(adjust_pattern(lhs.v, a, b))
    /\ cmp' = NoCmp
    /\ UNCHANGED <<str_in, str_out, rhs, raw, req, shown, build, courses, query, result,
                 manager>>

FromStrRhs(s) ==
    /\ CourseCode_from_str(s).some
    /\ rhs' = CourseCode_from_str(s)
    /\ cmp' = NoCmp
    /\ UNCHANGED <<str_in, str_out, lhs, raw, req, shown, build, courses, query, result,
                 manager>>

Compare ==
    /\ lhs.some /\ rhs.some
    /\ cmp' = [done |-> TRUE,
               l_eq_r |-> CourseCode_eq(lhs.v, rhs.v),
               r_eq_l |-> CourseCode_eq(rhs.v, lhs.v),
               l_match_r |-> is_match(lhs.v, rhs.v),
               r_match_l |-> is_match(rhs.v, lhs.v),
               l_level |-> level(lhs.v)]
    /\ UNCHANGED <<str_in, str_out, lhs, rhs, raw, req, shown, build, courses, query, result,
                 manager>>

CodeInit == IdleStr /\ IdleCode /\ IdleParse /\ IdleCatalog /\ IdleManager

CodeNext ==
    \/ \E s \in PatternInputs : ParseLhs(s)
    \/ \E school \in Schools : NewAnySchoolLhs(school)
    \/ \E school \in Schools, lvl \in LevelArgs : NewSchoolWithLevelLhs(school, lvl)
    \/ \E lvl \in LevelArgs : NewAnySchoolWithLevelLhs(lvl)
    \/ \E a \in CounterArgs, b \in CounterArgs : AdjustLhs(a, b)
    \/ \E s \in ExactInputs : FromStrRhs(s)
    \/ Compare

SpecCode == CodeInit /\ [][CodeNext]_vars

-----------------------------------------------------------------------------
(* SpecParse: Requirements::try_new and to_string applied to raw texts     *)

w_COMP1511 == <<"C", "O", "M", "P", "1", "5", "1", "1">>

w_COMP1521 == <<"C", "O", "M", "P", "1", "5", "2", "1">>

w_COMP1531 == <<"C", "O", "M", "P", "1", "5", "3", "1">>

w_COMP2521 == <<"C", "O", "M", "P", "2", "5", "2", "1">>

w_COMM1999 == <<"C", "O", "M", "M", "1", "9", "9", "9">>

w_COMM1100 == <<"C", "O", "M", "M", "1", "1", "0", "0">>

w_MECH3211 == <<"M", "E", "C", "H", "3", "2", "1", "1">>

w_MTRN3212 == <<"M", "T", "R", "N", "3", "2", "1", "2">>

w_MATH1231 == <<"M", "A", "T", "H", "1", "2", "3", "1">>

w_DPST1014 == <<"D", "P", "S", "T", "1", "0", "1", "4">>

w_MATH1241 == <<"M", "A", "T", "H", "1", "2", "4", "1">>

w_and == <<"a", "n", "d">>

w_And == <<"A", "n", "d">>

w_or == <<"o", "r">>

w_OR == <<"O", "R">>

w_comma == <<",">>

w_Exclusion == <<"E", "x", "c", "l", "u", "s", "i", "o", "n", ":">>

w_Co_requisite == <<"C", "o", "-", "r", "e", "q", "u", "i", "s", "i", "t", "e", ":">>


w_12 == <<"1", "2">>

w_112 == <<"1", "1", "2">>

w_UOC == <<"U", "O", "C">>

w_open == <<"(">>

w_close == <<")">>

w_finish == <<"f", "i", "n", "i", "s", "h">>

w_overall == <<"o", "v", "e", "r", "a", "l", "l">>

w_3778 == <<"3", "7", "7", "8">>

w_65 == <<"6", "5">>

w_WAM == <<"W", "A", "M">>

w_of == <<"o", "f">>

w_abc == <<"a", "b", "c">>

w_6 == <<"6">>

w_from == <<"f", "r", "o", "m">>

w_following == <<"f", "o", "l", "l", "o", "w", "i", "n", "g">>

w_course == <<"c", "o", "u", "r", "s", "e">>

w_COMM1120 == <<"C", "O", "M", "M", "1", "1", "2", "0">>

w_COMM1140 == <<"C", "O", "M", "M", "1", "1", "4", "0">>

w_uoc == <<"u", "o", "c">>

w_uocs == <<"u", "o", "c", "s">>

w_wam == <<"w", "a", "m">>

w_at == <<"a", "t">>

w_level == <<"l", "e", "v", "e", "l">>

w_36 == <<"3", "6">>

w_1 == <<"1">>

\* Every sequence of at most n elements of S.
Seqs(S, n) == UNION {[1..k -> S] : k \in 0..n}

MaxWords == 5

ClauseWords == {w_COMP1511, w_COMM1100, w_and, w_or, w_comma}

\* A prerequisite line with every clause of at most MaxWords words.
ClauseInputs == {<<w_Prerequisites>> \o body : body \in Seqs(ClauseWords, MaxWords)}

MaxMixedWords == 4

MixedWords == {w_COMP1511, w_12, w_UOC, w_comma, w_or, w_open, w_close}

\* A prerequisite line of codes, numbers, the UOC keyword, separators and
\* brackets, of at most MaxMixedWords words.
MixedInputs == {<<w_Prerequisites>> \o body : body \in Seqs(MixedWords, MaxMixedWords)}

MaxFromWords == 3

FromWords == {w_COMP1511, w_COMM1100, w_or, w_and, w_comma, w_3778}

\* "6 UOC from" and at most MaxFromWords words after it.
FromInputs ==
    {<<w_Prerequisites, w_6, w_UOC, w_from>> \o body : body \in Seqs(FromWords, MaxFromWords)}

MaxWamWords == 3

WamWords == {w_WAM, w_of, w_65, w_COMP1511, w_comma}

\* A prerequisite line of at most MaxWamWords words around the WAM keyword.
WamInputs == {<<w_Prerequisites>> \o body : body \in Seqs(WamWords, MaxWamWords)}

\* The upper-case letter of a lower-case letter of a keyword.
UpperOf(c) ==
    CASE c = "a" -> "A" [] c = "c" -> "C" [] c = "d" -> "D" [] c = "e" -> "E"
      [] c = "f" -> "F" [] c = "l" -> "L" [] c = "m" -> "M" [] c = "n" -> "N"
      [] c = "o" -> "O" [] c = "r" -> "R" [] c = "s" -> "S" [] c = "t" -> "T"
      [] c = "u" -> "U" [] c = "v" -> "V" [] c = "w" -> "W"

\* Every letter-case variant of a lower-case word.
RECURSIVE CaseVariants(_)
CaseVariants(w) ==
    IF w = <<>> THEN {<<>>}
    ELSE {<<c>> \o v : c \in {Head(w), UpperOf(Head(w))}, v \in CaseVariants(Tail(w))}

KeywordWords == {w_or, w_and, w_uoc, w_uocs, w_wam, w_at, w_from, w_of, w_level}

\* A keyword in one of its letter-case variants between two course codes.
KeywordInputs ==
    {<<w_Prerequisites, w_COMP1511, v, w_COMM1100>> :
       v \in UNION {CaseVariants(w) : w \in KeywordWords}}

MaxLines == 2

LineLabels ==
    {w_Pre_requisites, w_Pre_requisite, w_Prerequisites, w_Prerequisite,
     w_Exclusion, w_Co_requisite}

LineBodies ==
    {<<w_COMP1511>>, <<w_COMM1100>>, <<w_COMP1511, w_comma, w_COMM1100>>,
     <<w_COMM1100, w_Prerequisites, w_COMP1511>>}

LineInputs == LineBodies \cup {<<l>> \o b : l \in LineLabels, b \in LineBodies}

LineSeparators == {w_br, w_newline}

\* The texts of n lines, each two joined by a <br/> or a line feed.
RECURSIVE TextsOfLines(_)
TextsOfLines(n) ==
    IF n = 0 THEN {<<>>}
    ELSE IF n = 1 THEN LineInputs
    ELSE {t \o <<sep>> \o l : t \in TextsOfLines(n - 1), sep \in LineSeparators,
                              l \in LineInputs}

MultiLineInputs == UNION {TextsOfLines(n) : n \in 0..MaxLines}

\* Inputs of the unit tests of requirements.rs.
test_long_binary ==
    <<w_Prerequisites, w_COMP1511, w_and, w_COMP1521, w_OR, w_COMP1531, w_OR,
      w_COMP2521, w_And, w_COMM1999>>

test_basic_list == <<w_Prerequisites, w_COMP1511, w_comma, w_COMP1521>>

test_edge_list == <<w_Prerequisites, w_COMP1511, w_comma, w_and, w_COMM1100>>

test_unused_str == <<w_Exclusion, w_MECH3211, w_comma, w_MTRN3212>>

test_br ==
    <<w_Exclusion, w_MECH3211, w_comma, w_MTRN3212, w_br,
      w_Prerequisites, w_MATH1231, w_OR, w_DPST1014, w_OR, w_MATH1241>>

test_uoc_from ==
    <<w_Prerequisites, w_6, w_UOC, w_from, w_following, w_course,
      w_COMM1100, w_or, w_COMM1120, w_or, w_COMM1140>>

test_uoc_at_level == <<w_Prerequisites, w_36, w_UOC, w_at, w_level, w_1>>

test_uoc_overall == <<w_Prerequisites, w_finish, w_112, w_UOC, w_overall>>

TestInputs ==
    {test_long_binary, test_basic_list, test_edge_list, test_unused_str, test_br,
     test_uoc_overall, test_uoc_from, test_uoc_at_level}

MaxGroupWords == 3

GroupWords == {w_COMP1511, w_comma, w_or, w_open, w_close}

GroupBefore == {<<>>, <<w_COMM1100, w_or>>, <<w_COMM1100, w_and>>, <<w_COMM1100, w_comma>>}

GroupAfter == {<<>>, <<w_or, w_COMM1100>>, <<w_comma, w_COMM1100>>}

\* A parenthesised group of at most MaxGroupWords words, alone or after
\* "COMM1100 or", "COMM1100 and", "COMM1100 ," and alone or before
\* "or COMM1100", ", COMM1100".
GroupInputs ==
    {<<w_Prerequisites>> \o before \o <<w_open>> \o inner \o <<w_close>> \o after :
        before \in GroupBefore, inner \in Seqs(GroupWords, MaxGroupWords), after \in GroupAfter}

RawInputs ==
    ClauseInputs \cup MixedInputs \cup FromInputs \cup WamInputs \cup GroupInputs
      \cup KeywordInputs \cup MultiLineInputs \cup TestInputs

TryNew ==
    /\ req = NotCalled
    /\ req' = [fn |-> "try_new", res |-> try_new(raw)]
    /\ UNCHANGED <<str_in, str_out, lhs, rhs, cmp, raw, shown, build, courses, query, result,
                 manager>>

Display ==
    /\ req.fn = "try_new"
    /\ req.res.some
    /\ shown = None
    /\ shown' = Some(Requirements_to_string(req.res.v))
    /\ UNCHANGED <<str_in, str_out, lhs, rhs, cmp, raw, req, build, courses, query, result,
                 manager>>

ParseInit ==
    /\ IdleStr /\ IdleCode /\ IdleCatalog /\ IdleManager
    /\ raw \in RawInputs
    /\ req = NotCalled
    /\ shown = None

ParseNext == TryNew \/ Display

SpecParse == ParseInit /\ [][ParseNext]_vars

-----------------------------------------------------------------------------
(* Spec: the catalog is loaded once, then Course::is_eligible is asked for   *)
(* courses of the catalog.                                                   *)

w_COMP3900 == <<"C", "O", "M", "P", "3", "9", "0", "0">>

w_COMP4961 == <<"C", "O", "M", "P", "4", "9", "6", "1">>

w_BLDG4018 == <<"B", "L", "D", "G", "4", "0", "1", "8">>

w_ZEIT1101 == <<"Z", "E", "I", "T", "1", "1", "0", "1">>

w_COMP9991 == <<"C", "O", "M", "P", "9", "9", "9", "1">>

w_COMP9992 == <<"C", "O", "M", "P", "9", "9", "9", "2">>

w_COMP3121 == <<"C", "O", "M", "P", "3", "1", "2", "1">>

w_COMP3131 == <<"C", "O", "M", "P", "3", "1", "3", "1">>

w_COMP3141 == <<"C", "O", "M", "P", "3", "1", "4", "1">>

w_COMP3151 == <<"C", "O", "M", "P", "3", "1", "5", "1">>

w_COMP9999 == <<"C", "O", "M", "P", "9", "9", "9", "9">>

w_3707 == <<"3", "7", "0", "7">>

w_130 == <<"1", "3", "0">>

JSONCourse(code, uoc, campus, school, raw_requirements) ==
    [code |-> code, UOC |-> uoc, campus |-> campus, school |-> school,
     raw_requirements |-> raw_requirements]

\* The courses of the JSON file: one for each kind of requirement.
JsonCourses ==
    { JSONCourse(w_COMP1511, 6, "Sydney", "CSE", <<>>),
      JSONCourse(w_COMP1521, 6, "Sydney", "CSE", <<w_Prerequisite, w_COMP1511>>),
      JSONCourse(w_COMP2521, 6, "Sydney", "CSE", <<w_Prerequisite, w_COMP1511, w_COMP1521>>),
      JSONCourse(w_ZEIT1101, 6, "UNSW Canberra", "SEIT", <<w_Prerequisite, w_COMP1511>>),
      JSONCourse(w_DPST1014, 6, "Sydney", "UNSW Global", <<w_Prerequisite, w_COMP1511>>),
      JSONCourse(w_MATH1231, 6, "Paddington", "Maths", <<w_Exclusion, w_COMP1511>>),
      JSONCourse(w_COMP4961, 6, "Sydney", "CSE", <<w_Prerequisite, w_3778>>),
      JSONCourse(w_BLDG4018, 6, "Sydney", "BE", <<w_Prerequisite, w_WAM, w_of, w_65>>),
      JSONCourse(w_COMP3900, 6, "Sydney", "CSE", <<w_Prerequisite, w_130, w_UOC>>),
      JSONCourse(w_COMP9991, 128, "Sydney", "CSE", <<>>),
      JSONCourse(w_COMP9992, 128, "Sydney", "CSE", <<>>),
      JSONCourse(w_COMP3121, 6, "Sydney", "CSE",
                 <<w_Prerequisite, w_COMP1511, w_comma, w_12, w_UOC>>),
      JSONCourse(w_COMP3131, 6, "Sydney", "CSE",
                 <<w_Prerequisite, w_COMP1511, w_and, w_12, w_UOC>>),
      JSONCourse(w_COMP3141, 6, "Sydney", "CSE",
                 <<w_Prerequisite, w_open, w_12, w_UOC, w_close, w_or, w_COMP1511>>),
      JSONCourse(w_COMP3151, 6, "Sydney", "CSE",
                 <<w_Prerequisite, w_COMP1511, w_or, w_12, w_UOC, w_comma, w_COMP1521>>) }

\* The JSON files tried: the whole catalog, and the catalog without its two
\* 128 UOC courses.
JsonFiles == {JsonCourses, {j \in JsonCourses : j.UOC < 128}}

\* The strings a taken-course list is made of: catalog courses, a course the
\* catalog does not have, and a string that is not a course code.
TakenStrings == {w_COMP1511, w_COMP1521, w_COMP9991, w_COMP9992, w_COMP9999, w_abc}

MaxTaken == 2

TakenLists == Seqs(TakenStrings, MaxTaken)

ProgramCodes == {ProgramCode_from_str(w_3778).v, ProgramCode_from_str(w_3707).v}

Wams == {None, Some(64), Some(65), Some(66)}

Load(json_courses) ==
    /\ courses = None
    /\ courses' = Some(parse_from_courses_json(json_courses))
    /\ UNCHANGED <<str_in, str_out, lhs, rhs, cmp, raw, req, shown, build, query, result,
                 manager>>

\* One call of Course::is_eligible on a course of the catalog.
IsEligible(code, program_code, taken_course, wam) ==
    /\ get_course(courses.v, CourseCode_from_str(code).v).r = "Ok"
    /\ query' = Some([code |-> Str(code), program_code |-> program_code,
                      taken_course |-> taken_course, wam |-> wam])
    /\ result' = Some(is_eligible(get_course(courses.v, CourseCode_from_str(code).v).course,
                                  program_code, taken_course, wam, courses.v, build))
    /\ UNCHANGED <<str_in, str_out, lhs, rhs, cmp, raw, req, shown, build, courses,
                 manager>>

\* The call changes nothing of the catalog, so one call per behaviour covers
\* every call.
Ask ==
    /\ courses.some
    /\ query = None
    /\ \E j \in JsonCourses, program_code \in ProgramCodes,
          taken_course \in TakenLists, wam \in Wams :
         IsEligible(j.code, program_code, taken_course, wam)

Init ==
    /\ IdleStr /\ IdleCode /\ IdleParse /\ IdleManager
    /\ build \in {"debug", "release"}
    /\ courses = None
    /\ query = None
    /\ result = None

Next ==
    \/ \E json_courses \in JsonFiles : Load(json_courses)
    \/ Ask

Spec == Init /\ [][Next]_vars

-----------------------------------------------------------------------------
(* Claims about the code model *)

\* The shape the documentation of from_str states: 8 characters, the first 4
\* alphabetic, the last 4 numeric.
ExactShape(s) ==
    /\ Len(s) = 8
    /\ \A i \in 1..4 : is_ascii_alphabetic(s[i])
    /\ \A i \in 5..8 : is_numeric(s[i])

\* C10: CourseCode::from_str returns a code exactly for the strings of 8
\* characters whose first 4 are alphabetic and last 4 numeric, and None for
\* every other string; is_code(s) is true exactly for those strings.
C10_FromStrAcceptsExactShapeOnly ==
    /\ str_out.fn = "from_str" => (str_out.res.v.some <=> ExactShape(str_in))
    /\ str_out.fn = "is_code" => (str_out.yes <=> ExactShape(str_in))

\* C1: for an exact code E (rhs) and a pattern P (lhs) whose school segment is
\* fully live and equal to E's school and whose number live-length is 0, both
\* P == E and E == P are true, and P.is_match(E) = E.is_match(P).
C1_PatternExactSymmetry ==
    ( /\ cmp.done
      /\ is_course_code(rhs.v)
      /\ lhs.v.num_of_match_school = 4
      /\ lhs.v.num_of_match_code = 0
      /\ lhs.v.school_code = rhs.v.school_code )
    => /\ cmp.l_eq_r
       /\ cmp.r_eq_l
       /\ cmp.l_match_r = cmp.r_match_l

-----------------------------------------------------------------------------
(* Claims about the requirement parser *)

IsSeparator(w) == w \in {w_br, w_newline}

IsPrefixLabel(w) == w \in {w_Pre_requisites, w_Pre_requisite, w_Prerequisites, w_Prerequisite}

\* The positions of the prefix labels that start a line of the text.
PrefixStarts(text) ==
    {i \in 1..Len(text) : IsPrefixLabel(text[i]) /\ (i = 1 \/ IsSeparator(text[i - 1]))}

FirstPrefix(text) == CHOOSE i \in PrefixStarts(text) : \A j \in PrefixStarts(text) : i <= j

\* The last position of the line that position i is on.
LineEnd(text, i) ==
    CHOOSE j \in i..Len(text) :
        /\ \A m \in i..j : ~IsSeparator(text[m])
        /\ (j = Len(text) \/ IsSeparator(text[j + 1]))

\* The words that follow the prefix label on the first line that starts with one.
TextAfterPrefix(text) ==
    SubSeq(text, FirstPrefix(text) + 1, LineEnd(text, FirstPrefix(text)))

\* The tokens of a text that is one prerequisite line.
IsOneClauseLine(text) ==
    /\ text # <<>>
    /\ Head(text) = w_Prerequisites
    /\ \A i \in 1..Len(text) : ~IsSeparator(text[i])

IsOperand(token) == token.t \in {"CODE", "TEXT"}

LeafNode(token) == IF token.t = "CODE" THEN CodeNode(token) ELSE TextNode(token.text)

\* operand (operator operand)+
IsChain(tokens) ==
    /\ Len(tokens) >= 3
    /\ Len(tokens) % 2 = 1
    /\ \A i \in 1..Len(tokens) :
         IF i % 2 = 1 THEN IsOperand(tokens[i]) ELSE tokens[i].t = "OPERATOR"

\* The chain with every operator taking one operand on its left and the whole
\* rest on its right.
RECURSIVE RightNested(_)
RightNested(tokens) ==
    IF Len(tokens) = 1 THEN LeafNode(tokens[1])
    ELSE [k |-> "Binary", left |-> LeafNode(tokens[1]),
          right |-> RightNested(SubSeq(tokens, 3, Len(tokens))),
          operator |-> tokens[2].op]

\* C2: a comma-free clause of operands joined by and/or parses with each
\* operator taking the single operand before it as its left child and the
\* parse of the whole rest of the clause as its right child (no precedence);
\* the five-operand chain of test_long_binary renders
\* "(COMP1511 and (COMP1521 or (COMP1531 or (COMP2521 and COMM1999))))".
C2_RightAssociativeChain ==
    /\ ( /\ req.fn = "try_new"
         /\ IsOneClauseLine(raw)
         /\ IsChain(tokenize(Tail(raw))) )
       => req.res = Some([contents |-> Some(RightNested(tokenize(Tail(raw)))), raw |-> raw])
    /\ (raw = test_long_binary /\ shown.some)
       => shown.v = "(COMP1511 and (COMP1521 or (COMP1531 or (COMP2521 and COMM1999))))"

C2_Witness ==
    /\ raw = test_long_binary
    /\ req.fn = "try_new"
    /\ IsChain(tokenize(Tail(raw)))
    /\ shown.some

\* The runs of tokens between the commas.
RECURSIVE SplitAtCommas(_, _, _)
SplitAtCommas(tokens, current, acc) ==
    IF tokens = <<>> THEN Append(acc, current)
    ELSE IF Head(tokens).t = "COMMA"
         THEN SplitAtCommas(Tail(tokens), <<>>, Append(acc, current))
         ELSE SplitAtCommas(Tail(tokens), Append(current, Head(tokens)), acc)

\* The nodes of the clauses that parse to a node, in input order.
CompletedItems(tokens) ==
    LET clauses == SplitAtCommas(tokens, <<>>, <<>>)
        parsed == [i \in 1..Len(clauses) |-> parse(clauses[i])]
        kept == SelectSeq(parsed, LAMBDA r : r.ok /\ r.node.some)
    IN  [i \in 1..Len(kept) |-> kept[i].node.v]

IsBracketFree(tokens) ==
    \A i \in 1..Len(tokens) : tokens[i].t \in {"CODE", "TEXT", "OPERATOR", "COMMA"}

\* C3: at the end of the input, one completed comma-separated item is the
\* tree itself, several become one List node holding them in input order
\* (rendered "Require all of following conditions: x, y"), none gives None.
C3_EndOfInputReduction ==
    /\ ( /\ req.fn = "try_new"
         /\ req.res.some
         /\ IsOneClauseLine(raw)
         /\ IsBracketFree(tokenize(Tail(raw))) )
       => LET items == CompletedItems(tokenize(Tail(raw)))
          IN  req.res.v.contents =
                IF Len(items) = 0 THEN None
                ELSE IF Len(items) = 1 THEN Some(items[1])
                ELSE Some([k |-> "List", nodes |-> items])
    /\ (raw = test_basic_list /\ shown.some)
       => shown.v = "Require all of following conditions: COMP1511, COMP1521"

C3_Witness ==
    /\ raw = test_basic_list
    /\ req.fn = "try_new"
    /\ req.res.some
    /\ req.res.v.contents.v.k = "List"
    /\ Len(req.res.v.contents.v.nodes) = 2
    /\ shown.some

\* C4: a text none of whose lines starts with a prerequisite prefix label
\* gives an empty requirement that renders as ""; otherwise exactly the words
\* after the prefix on the first such line are parsed, and the other lines
\* contribute nothing.
C4_PrefixCleaning ==
    req.fn = "try_new" =>
      IF PrefixStarts(raw) = {}
      THEN /\ req.res = Some([contents |-> None, raw |-> raw])
           /\ shown.some => shown.v = ""
      ELSE LET expected == parse(tokenize(TextAfterPrefix(raw)))
           IN  IF expected.ok
               THEN req.res = Some([contents |-> expected.node, raw |-> raw])
               ELSE req.res = None

C4_Witness ==
    /\ raw = test_br
    /\ req.fn = "try_new"
    /\ FirstPrefix(raw) > 1
    /\ shown = Some("(MATH1231 or (DPST1014 or MATH1241))")

-----------------------------------------------------------------------------
(* Claims about the evaluator *)

\* An is_eligible call has been made and answered.
Asked == query.some /\ result.some

AskedCourse == courses.v[query.v.code]

\* The JSON course the asked course was loaded from.
AskedJson == CHOOSE j \in JsonCourses : Str(j.code) = query.v.code

HasTree == AskedCourse.requirements.some /\ AskedCourse.requirements.v.contents.some

AskedTree == AskedCourse.requirements.v.contents.v

\* The evaluation of a node of the asked tree on the student of the query.
Eval(node) ==
    evulate(node, query.v.program_code, query.v.taken_course, query.v.wam, courses.v, build)

\* C5: a course without Requirements (its raw text does not parse, its campus
\* is Canberra, its school is "UNSW Global") or with an empty Requirements
\* tree is eligible, Ok(true), for every program code, taken list and WAM.
C5_FailOpen ==
    Asked =>
      /\ ( \/ AskedJson.campus = "UNSW Canberra"
           \/ AskedJson.school = "UNSW Global"
           \/ ~try_new(AskedJson.raw_requirements).some
           \/ ~try_new(AskedJson.raw_requirements).v.contents.some )
         => result.v = OkBool(TRUE)
      /\ ~HasTree => result.v = OkBool(TRUE)

C5_Witness ==
    /\ Asked
    /\ query.v.code = "COMP2521"
    /\ ~AskedCourse.requirements.some
    /\ query.v.taken_course = <<w_abc, w_COMP9999>>
    /\ query.v.wam = Some(64)
    /\ result.v = OkBool(TRUE)

\* C6: a WAM node of threshold T is Ok(true) when the student has no WAM, and
\* otherwise Ok(true) when wam >= T and Ok(false) when wam < T, whatever the
\* program code and the taken courses are.
C6_WamNode ==
    (Asked /\ HasTree /\ AskedTree.k = "WAM") =>
      /\ ~query.v.wam.some => result.v = OkBool(TRUE)
      /\ (query.v.wam.some /\ query.v.wam.v >= AskedTree.wam) => result.v = OkBool(TRUE)
      /\ (query.v.wam.some /\ query.v.wam.v < AskedTree.wam) => result.v = OkBool(FALSE)
      /\ query.v.code = "BLDG4018" => AskedTree.wam = 65

C6_Witness ==
    /\ Asked
    /\ HasTree
    /\ AskedTree = WamNode(65)
    /\ query.v.wam = Some(64)
    /\ query.v.taken_course = <<w_COMP9999>>
    /\ result.v = OkBool(FALSE)

\* C7: a course-code leaf is true exactly when its 8-character display string
\* is one of the strings of the taken list, and a program-code leaf exactly
\* when its display string is that of the student's program code.
C7_CodeLeafExact ==
    (Asked /\ HasTree /\ AskedTree.k = "Code") =>
      IF AskedTree.kind = "COURSE"
      THEN /\ Len(AskedTree.code.school_code \o AskedTree.code.course_code) = 8
           /\ result.v = OkBool(Str(AskedTree.code.school_code \o AskedTree.code.course_code)
                                  \in {Str(query.v.taken_course[i]) :
                                         i \in 1..Len(query.v.taken_course)})
      ELSE result.v = OkBool(Str(AskedTree.code.code) = Str(query.v.program_code.code))

C7_Witness ==
    /\ Asked
    /\ HasTree
    /\ AskedTree.k = "Code"
    /\ AskedTree.kind = "COURSE"
    /\ Str(AskedTree.code.school_code \o AskedTree.code.course_code) = "COMP1511"
    /\ query.v.taken_course = <<w_COMP1521>>
    /\ result.v = OkBool(FALSE)

\* The units of credit of the taken courses, added without a width.
RECURSIVE TrueTotal(_)
TrueTotal(taken_course) ==
    IF taken_course = <<>> THEN 0
    ELSE (CHOOSE j \in JsonCourses : j.code = Head(taken_course)).UOC
           + TrueTotal(Tail(taken_course))

\* C8: a UOC node of threshold T is Ok(true) exactly when the units of credit
\* of the taken courses add up to at least T, for every taken list of catalog
\* courses, the lists whose total exceeds 255 included.
C8_UOCNodeTotal ==
    ( /\ Asked /\ HasTree /\ AskedTree.k = "UOC"
      /\ \A i \in 1..Len(query.v.taken_course) :
           Str(query.v.taken_course[i]) \in DOMAIN courses.v )
    => result.v = OkBool(TrueTotal(query.v.taken_course) >= AskedTree.uoc)

\* C9: a List node never returns an error: when the first child that is not
\* true errors, the List is Ok(false). A Binary node returns the error of an
\* operand it evaluates, and the caller of the root gets that error.
C9_ErrorPropagation ==
    (Asked /\ HasTree) =>
      /\ AskedTree.k = "List" =>
           /\ result.v.r # "Err"
           /\ (\E i \in 1..Len(AskedTree.nodes) :
                 /\ Eval(AskedTree.nodes[i]).r = "Err"
                 /\ \A j \in 1..(i - 1) : Eval(AskedTree.nodes[j]) = OkBool(TRUE))
              => result.v = OkBool(FALSE)
      /\ AskedTree.k = "Binary" =>
           /\ Eval(AskedTree.left).r = "Err" => result.v = Eval(AskedTree.left)
           /\ ( /\ Eval(AskedTree.left) = OkBool(AskedTree.operator = "AND")
                /\ Eval(AskedTree.right).r = "Err" )
              => result.v = Eval(AskedTree.right)

C9_Witness ==
    /\ Asked
    /\ HasTree
    /\ AskedTree.k = "List"
    /\ Eval(AskedTree.nodes[1]) = OkBool(TRUE)
    /\ Eval(AskedTree.nodes[2]).r = "Err"
    /\ result.v = OkBool(FALSE)

-----------------------------------------------------------------------------
(* Claims about the counters of a CourseCode *)

\* The counters are within 0..4, exactly the leading slots they count hold a
\* concrete character, and every other slot holds the filler.
LiveCounters(c) ==
    /\ c.num_of_match_school \in 0..4
    /\ c.num_of_match_code \in 0..4
    /\ \A i \in 1..4 : (c.school_code[i] # SchoolFiller[i]) <=> (i <= c.num_of_match_school)
    /\ \A i \in 1..4 : (c.course_code[i] # NumberFiller[i]) <=> (i <= c.num_of_match_code)

\* C11: every code CourseCode::parse returns, and every code after later
\* adjust_pattern calls, has both counters within 0..4, concrete characters in
\* exactly the leading slots the counters count and the filler in the others.
C11_LiveCounterInvariant ==
    /\ (str_out.fn = "parse" /\ str_out.res.kind = "ok" /\ str_out.res.v.some)
         => LiveCounters(str_out.res.v.v)
    /\ lhs.some => LiveCounters(lhs.v)

-----------------------------------------------------------------------------
(* program.rs: the entries of a course component                             *)
(*                                                                           *)
(* A Vec that is filled while iterating over a HashMap has no order the code *)
(* fixes: it is a bag of its elements.                                       *)

is_whitespace(c) == c = " "

RECURSIVE trim_start(_)
trim_start(s) == IF s # <<>> /\ is_whitespace(Head(s)) THEN trim_start(Tail(s)) ELSE s

RECURSIVE trim_end(_)
trim_end(s) == IF s # <<>> /\ is_whitespace(Last(s)) THEN trim_end(Front(s)) ELSE s

\* str::trim
trim(s) == trim_end(trim_start(s))

\* str::contains
contains(s, pat) == \E i \in 1..(Len(s) - Len(pat) + 1) : SubSeq(s, i, i + Len(pat) - 1) = pat

\* str::split: the pieces between the matches of pat, found left to right.
RECURSIVE split(_, _, _)
split(s, pat, piece) ==
    IF s = <<>> THEN <<piece>>
    ELSE IF Len(s) >= Len(pat) /\ SubSeq(s, 1, Len(pat)) = pat
    THEN <<piece>> \o split(SubSeq(s, Len(pat) + 1, Len(s)), pat, <<>>)
    ELSE split(Tail(s), pat, Append(piece, Head(s)))

\* AlternativeCourse::from_str: every piece between two "or" must parse.
\* (The entries modelled have at most 8 characters a piece, so parse returns.)
AlternativeCourse_from_str(s) ==
    IF ~contains(s, <<"o", "r">>) THEN None
    ELSE LET pieces == split(s, <<"o", "r">>, <<>>)
             parsed == [i \in 1..Len(pieces) |-> CourseCode_parse(trim(pieces[i])).v]
         IN  IF \E i \in 1..Len(pieces) : ~parsed[i].some THEN None
             ELSE Some([courses |-> [i \in 1..Len(pieces) |-> parsed[i].v]])

\* program::Course::new
program_Course_new(course_code) ==
    IF AlternativeCourse_from_str(course_code).some
    THEN [kind |-> "Alternative", ac |-> AlternativeCourse_from_str(course_code).v]
    ELSE IF CourseCode_parse(trim(course_code)).v.some
    THEN [kind |-> "Course", c |-> CourseCode_parse(trim(course_code)).v.v]
    ELSE [kind |-> "Text", t |-> course_code]

\* program::Course::to_course_codes
to_course_codes(course) ==
    CASE course.kind = "Course" -> <<course.c>>
      [] course.kind = "Alternative" -> course.ac.courses
      [] course.kind = "Text" -> <<>>

\* impl Display for AlternativeCourse
AlternativeCourse_to_string(ac) ==
    join([i \in 1..Len(ac.courses) |-> CourseCode_to_string(ac.courses[i])], " or ")

\* impl Display for program::Course
program_Course_to_string(course) ==
    CASE course.kind = "Course" -> CourseCode_to_string(course.c)
      [] course.kind = "Alternative" -> AlternativeCourse_to_string(course.ac)
      [] course.kind = "Text" -> Str(course.t)

\* The closure that turns a Vec<Course> into a Vec<String>.
course_strings(value) == [i \in 1..Len(value) |-> program_Course_to_string(value[i])]

-----------------------------------------------------------------------------
(* program.rs: Program, Specialisation and the ProgramManager               *)
(*                                                                           *)
(* Of a program and a specialisation the fields kept are those the search    *)
(* functions read: title/name, code, type, course components, views and the  *)
(* back-populated programs.                                                  *)

\* One object of "non_spec_data" or of "curriculum".
JSONComponent(type, title, courses_keys) ==
    [type |-> type, title |-> title, courses |-> courses_keys]

\* Builder<CourseComponent>::build
build_CourseComponent(json) ==
    [title |-> json.title,
     courses |-> [i \in 1..Len(json.courses) |-> program_Course_new(json.courses[i])]]

\* build_view: None when the tier is absent, else direction -> SpecialisationView.
build_view(view_json) ==
    IF ~view_json.some THEN None
    ELSE Some([direction \in DOMAIN view_json.v |->
                 [specialisations |-> view_json.v[direction]]])

\* Builder<SpecialisationComponent>::build
build_SpecialisationComponent(json) ==
    Some([major |-> build_view(json.majors), minor |-> build_view(json.minors),
          honours |-> build_view(json.honours)])

\* The components of "non_spec_data" that are course components, by title:
\* HashMap::insert keeps the last object of a title.
buffed_components(non_spec) ==
    LET kept == {i \in 1..Len(non_spec) :
                   non_spec[i].type \in {"prescribed_electives", "core_courses"}}
    IN  [title \in {non_spec[i].title : i \in kept} |->
           build_CourseComponent(
             non_spec[CHOOSE i \in kept :
                        /\ non_spec[i].title = title
                        /\ \A j \in kept : non_spec[j].title = title => j <= i])]

\* Program::new_from_json
Program_new_from_json(json) ==
    [title |-> json.title,
     code |-> ProgramCode_from_str(json.code).v,
     course_components |->
       IF ~json.non_spec_data.some THEN None
       ELSE IF DOMAIN buffed_components(json.non_spec_data.v) = {} THEN None
       ELSE Some(buffed_components(json.non_spec_data.v)),
     specialisation_component |->
       IF ~json.spec_data.some THEN None
       ELSE build_SpecialisationComponent(json.spec_data.v)]

\* impl Display for SpecialisationType
SpecialisationType_to_string(spec_type) ==
    CASE spec_type = "major" -> "Major"
      [] spec_type = "minor" -> "Minor"
      [] spec_type = "honours" -> "Honours"

\* Specialisation::new_from_json (a type other than the three aborts the load)
Specialisation_new_from_json(json) ==
    [name |-> json.name,
     spec_type |-> json.type,
     code |-> json.code,
     course_components |->
       [title \in {json.curriculum[i].title : i \in 1..Len(json.curriculum)} |->
          build_CourseComponent(
            json.curriculum[CHOOSE i \in 1..Len(json.curriculum) :
               /\ json.curriculum[i].title = title
               /\ \A j \in 1..Len(json.curriculum) :
                    json.curriculum[j].title = title => j <= i])],
     programs |-> EmptyBag]

\* ProgramManager::parse_from_program_json: keyed by the JSON key.
parse_from_program_json(program_json) ==
    [program_code \in DOMAIN program_json |-> Program_new_from_json(program_json[program_code])]

\* ProgramManager::parse_from_specialisation_json
parse_from_specialisation_json(specialiastions) ==
    [program_code \in DOMAIN specialiastions |->
       Specialisation_new_from_json(specialiastions[program_code])]

\* The sum of the bags of a family of bags.
RECURSIVE BagSum(_)
BagSum(f) ==
    IF DOMAIN f = {} THEN EmptyBag
    ELSE LET i == CHOOSE i \in DOMAIN f : TRUE
         IN  f[i] (+) BagSum([j \in DOMAIN f \ {i} |-> f[j]])

\* The views of a specialisation component, tier by tier: major, minor, honours.
tiers(specialisation_component) ==
    <<specialisation_component.major, specialisation_component.minor,
      specialisation_component.honours>>

\* The places where a program lists a specialisation: (tier, direction, index).
listings(program) ==
    IF ~program.specialisation_component.some THEN {}
    ELSE LET t == tiers(program.specialisation_component.v)
         IN  UNION {UNION {{<<k, direction, i>> :
                              i \in 1..Len(t[k].v[direction].specialisations)} :
                            direction \in IF t[k].some THEN DOMAIN t[k].v ELSE {}} :
                    k \in 1..3}

listed_code(program, l) ==
    tiers(program.specialisation_component.v)[l[1]].v[l[2]].specialisations[l[3]]

mapping_majors_only(programs, specialiastions) ==
    [spec_code \in DOMAIN specialiastions |->
       [specialiastions[spec_code] EXCEPT !.programs =
          SetToBag({programs[p].code : p \in {p \in DOMAIN programs :
                      \E l \in listings(programs[p]) :
                         l[1] = 1 /\ listed_code(programs[p], l) = spec_code}})]]

\* ProgramManager::mapping_program_into_specialisation: one push of the
\* program's code for every place where the program lists a specialisation
\* the map has.
mapping_program_into_specialisation(programs, specialiastions) ==
    [spec_code \in DOMAIN specialiastions |->
       [specialiastions[spec_code] EXCEPT !.programs =
          @ (+) BagSum([pl \in {pl \in UNION {{<<p, l>> : l \in listings(programs[p])} :
                                                 p \in DOMAIN programs} :
                                  listed_code(programs[pl[1]], pl[2]) = spec_code} |->
                          SetToBag({programs[pl[1]].code})])]]

\* ProgramManager::new
ProgramManager_new(program_json, specialiastions) ==
    [programs |-> parse_from_program_json(program_json),
     specialiastions |->
       mapping_program_into_specialisation(
         parse_from_program_json(program_json),
         parse_from_specialisation_json(specialiastions))]

\* ProgramManager::load: both maps are replaced, then mapped again.
ProgramManager_load(self, program_json, specialiastions) ==
    [self EXCEPT
       !.programs = parse_from_program_json(program_json),
       !.specialiastions =
         mapping_program_into_specialisation(
           parse_from_program_json(program_json),
           parse_from_specialisation_json(specialiastions))]

\* Result<T, String>
OkVal(v) == [r |-> "Ok", v |-> v]

\* ProgramManager::get_program
get_program(self, code) ==
    IF ProgramCode_to_string(code) \in DOMAIN self.programs
    THEN OkVal(self.programs[ProgramCode_to_string(code)])
    ELSE ErrMsg(ProgramCode_to_string(code) \o " cannot found in dataset")

\* ProgramManager::get_specialiastion
get_specialiastion(self, code) ==
    IF code \in DOMAIN self.specialiastions
    THEN OkVal(self.specialiastions[code])
    ELSE ErrMsg(code \o " cannot found in dataset")

\* impl PartialEq for ProgramCode
ProgramCode_eq(self, other) == \A i \in 1..4 : self.code[i] = other.code[i]

\* Vec<ProgramCode>::contains
programs_contains(programs, code) ==
    \E p \in BagToSet(programs) : ProgramCode_eq(p, code)

-----------------------------------------------------------------------------
(* search.rs: the structure of a program *)

\* The (title, courses) pairs of a map of course components.
component_pairs(course_components) ==
    SetToBag({<<course_components[key].title, course_components[key].courses>> :
                key \in DOMAIN course_components})

\* Program::list_courses
Program_list_courses(self) ==
    IF ~self.course_components.some THEN None
    ELSE Some(component_pairs(self.course_components.v))

\* Specialisation::list_courses
Specialisation_list_courses(self) == component_pairs(self.course_components)

\* Program::list_specialisations: for each tier the (direction, codes) pairs,
\* none for a tier the program does not have.
list_specialisations(self) ==
    IF ~self.specialisation_component.some THEN None
    ELSE Some([k \in 1..3 |->
                 LET view == tiers(self.specialisation_component.v)[k]
                 IN  IF ~view.some THEN EmptyBag
                     ELSE SetToBag({<<direction, view.v[direction].specialisations>> :
                                      direction \in DOMAIN view.v})])

TierNames == <<"Major", "Minor", "Honours">>

\* The entries one specialisation adds to a recursive structure, under a prefix.
expanded(prefix, spec) ==
    LET pairs == Specialisation_list_courses(spec)
    IN  BagSum([pair \in BagToSet(pairs) |->
                  SetToBag({<<prefix \o " - " \o spec.name \o " - " \o pair[1],
                              course_strings(pair[2])>>})])

RECURSIVE expand_listed_skipping(_, _, _, _)
expand_listed_skipping(self, code, specialiasation_codes, entries) ==
    IF specialiasation_codes = <<>> THEN OkVal(entries)
    ELSE LET spec == get_specialiastion(self, Head(specialiasation_codes))
         IN  IF spec.r = "Err" \/ ~programs_contains(spec.v.programs, code)
             THEN expand_listed_skipping(self, code, Tail(specialiasation_codes), entries)
             ELSE expand_listed_skipping(self, code, Tail(specialiasation_codes),
                    entries (+) expanded(SpecialisationType_to_string(spec.v.spec_type), spec.v))

\* The loop over the listed codes of the filter: the first code that is
\* unknown or not allowed for the program ends the call with its error.
RECURSIVE expand_listed(_, _, _, _)
expand_listed(self, code, specialiasation_codes, entries) ==
    IF specialiasation_codes = <<>> THEN OkVal(entries)
    ELSE LET specialiasation_code == Head(specialiasation_codes)
             spec == get_specialiastion(self, specialiasation_code)
         IN  IF spec.r = "Err" THEN spec
             ELSE IF ~programs_contains(spec.v.programs, code)
             THEN ErrMsg("Specialisation " \o specialiasation_code
                           \o " is not allowed for program " \o ProgramCode_to_string(code))
             ELSE expand_listed(self, code, Tail(specialiasation_codes),
                    entries (+) expanded(SpecialisationType_to_string(spec.v.spec_type), spec.v))

\* The loop over every tier, direction and code of the program: a code the
\* map does not have is skipped.
expand_all(self, program) ==
    BagSum([l \in listings(program) |->
              LET spec == get_specialiastion(self, listed_code(program, l))
              IN  IF spec.r = "Err" THEN EmptyBag
                  ELSE expanded(TierNames[l[1]], spec.v)])

view_entries_of_every_view(specialiasations) ==
    BagSum([kp \in UNION {{<<k, pair>> : pair \in BagToSet(specialiasations[k])} :
                          k \in 1..3} |->
              SetToBag({<<TierNames[kp[1]] \o " - " \o kp[2][1], kp[2][2]>>})])

\* The loop of the non-recursive branch: one entry for each view that lists
\* at least one code.
view_entries(specialiasations) ==
    BagSum([kp \in UNION {{<<k, pair>> : pair \in BagToSet(specialiasations[k])} :
                          k \in 1..3} |->
              IF Len(kp[2][2]) = 0 THEN EmptyBag
              ELSE SetToBag({<<TierNames[kp[1]] \o " - " \o kp[2][1], kp[2][2]>>})])

get_program_structure_filter_first(self, code, recusive, specialiasation_codes) ==
    LET listed == IF recusive /\ specialiasation_codes.some
                  THEN expand_listed(self, code, specialiasation_codes.v, EmptyBag)
                  ELSE OkVal(EmptyBag)
    IN  IF listed.r = "Err" THEN listed
        ELSE IF get_program(self, code).r = "Err" THEN get_program(self, code)
        ELSE listed

\* ProgramManager::get_program_structure
get_program_structure(self, code, recusive, specialiasation_codes) ==
    LET program == get_program(self, code)
    IN  IF program.r = "Err" THEN program
        ELSE LET own == IF Program_list_courses(program.v).some
                        THEN Program_list_courses(program.v).v ELSE EmptyBag
                 entries == BagSum([pair \in BagToSet(own) |->
                                     SetToBag({<<pair[1], course_strings(pair[2])>>})])
             IN  IF recusive
                 THEN IF ~specialiasation_codes.some
                      THEN IF list_specialisations(program.v).some
                           THEN OkVal(entries (+) expand_all(self, program.v))
                           ELSE OkVal(entries)
                      ELSE expand_listed(self, code, specialiasation_codes.v, entries)
                 ELSE IF list_specialisations(program.v).some
                      THEN OkVal(entries (+) view_entries(list_specialisations(program.v).v))
                      ELSE OkVal(entries)

-----------------------------------------------------------------------------
(* search.rs: the course pool of a program *)

\* SearchPool::new: an empty set is kept as None; the level names the sets
\* that are not empty.
SearchPool_new(course_code_pool, course_pattern_pool) ==
    [course_code_pool |-> IF course_code_pool = {} THEN None ELSE Some(course_code_pool),
     course_pattern_pool |->
       IF course_pattern_pool = {} THEN None ELSE Some(course_pattern_pool),
     pool_level |->
       IF course_pattern_pool = {} THEN "CourseCodeOnly"
       ELSE IF course_code_pool = {} THEN "CoursePatternOnly"
       ELSE "Hybrid"]

\* SearchPool::new_from_set
new_from_set(course_code_pool) ==
    SearchPool_new({course_code \in course_code_pool : ~is_pattern(course_code)},
                   {course_code \in course_code_pool : is_pattern(course_code)})

\* The elements of a sequence.
Elements(s) == {s[i] : i \in 1..Len(s)}

\* The entries of a map of course components. (A HashSet<&Course> holds one
\* entry per display string; the files modelled have no two different entries
\* with one display string.)
component_courses(course_components) ==
    UNION {Elements(course_components[key].courses) : key \in DOMAIN course_components}

\* ProgramManager::get_course_pool: the program's own entries and those of
\* every specialisation its views list, flattened to course codes. A listed
\* code the specialisation map does not have is unwrapped and aborts the call.
\* (The codes are all built by CourseCode::parse, which builds one code per
\* display string, so the HashSet<CourseCode> is the set of the codes.)
get_course_pool(self, code) ==
    LET program == get_program(self, code)
    IN  IF program.r = "Err" THEN program
        ELSE IF \E l \in listings(program.v) :
                    get_specialiastion(self, listed_code(program.v, l)).r = "Err"
        THEN Panic
        ELSE LET own == IF program.v.course_components.some
                        THEN component_courses(program.v.course_components.v) ELSE {}
                 listed == UNION {component_courses(
                                    get_specialiastion(self, listed_code(program.v, l))
                                      .v.course_components) :
                                  l \in listings(program.v)}
             IN  OkVal(new_from_set(UNION {Elements(to_course_codes(course)) :
                                             course \in own \cup listed}))

\* SearchPool::course_code_pool: the codes the catalog has.
course_code_pool(self, course_manager) ==
    {get_course(course_manager, course_code).course :
       course_code \in {c \in (IF self.course_code_pool.some
                               THEN self.course_code_pool.v ELSE {}) :
                          get_course(course_manager, c).r = "Ok"}}

\* SearchPool::course_pattern_pool: the courses of the catalog a pattern matches.
course_pattern_pool(self, course_manager) ==
    {course_manager[key] : key \in {key \in DOMAIN course_manager :
       \E pattern_code \in (IF self.course_pattern_pool.some
                            THEN self.course_pattern_pool.v ELSE {}) :
          is_match(pattern_code, course_manager[key].code)}}

\* SearchPool::pool
pool(self, course_manager) ==
    CASE self.pool_level = "CourseCodeOnly" -> course_code_pool(self, course_manager)
      [] self.pool_level = "CoursePatternOnly" -> course_pattern_pool(self, course_manager)
      [] self.pool_level = "Hybrid" ->
           course_code_pool(self, course_manager)
             \cup course_pattern_pool(self, course_manager)

\* CourseManager::list_courses_from_pool
list_courses_from_pool(self, search_pool) == pool(search_pool, self)

\* CourseManager::list_eligible_courses: the courses of the pool whose
\* is_eligible is Ok(true); the call aborts when one is_eligible aborts.
list_eligible_courses(self, search_pool, program_code, taken_course, wam, profile) ==
    IF \E course \in pool(search_pool, self) :
          is_eligible(course, program_code, taken_course, wam, self, profile) = Panic
    THEN Panicked
    ELSE Returned({course \in pool(search_pool, self) :
                     is_eligible(course, program_code, taken_course, wam, self, profile)
                       = OkBool(TRUE)})

-----------------------------------------------------------------------------
(* SpecProgram: the program manager is built from a program file and a       *)
(* specialisation file (and may be loaded again), the catalog is loaded, and *)
(* then one of the search functions is called.                               *)

w_COMP3 == <<"C", "O", "M", "P", "3">>

w_co_op == <<"m", "u", "s", "t", " ", "b", "e", " ", "c", "o", "-", "o", "p">>

w_3502 == <<"3", "5", "0", "2">>

w_9999 == <<"9", "9", "9", "9">>

JSONSpecialisation(name, code, type, curriculum) ==
    [name |-> name, code |-> code, type |-> type, curriculum |-> curriculum]

JSONProgram(title, code, non_spec_data, spec_data) ==
    [title |-> title, code |-> code, non_spec_data |-> non_spec_data, spec_data |-> spec_data]

JSONSpecData(majors, minors, honours) ==
    [majors |-> majors, minors |-> minors, honours |-> honours]

\* The specialisation file: a major, a specialisation declared a minor (that
\* program 3778 lists among its majors) and an honours specialisation.
JsonSpecialisations ==
    [spec_code \in {"COMPA1", "COMPD1", "SENGAH"} |->
       CASE spec_code = "COMPA1" ->
              JSONSpecialisation("Artificial Intelligence", "COMPA1", "major",
                <<JSONComponent("core_courses", "Core Courses",
                    <<w_COMP3121, w_COMP1511 \o <<" ">> \o w_or \o <<" ">> \o w_COMP2521>>),
                  JSONComponent("prescribed_electives", "Electives", <<w_COMP3>>)>>)
         [] spec_code = "COMPD1" ->
              JSONSpecialisation("Database Systems", "COMPD1", "minor",
                <<JSONComponent("core_courses", "Core Courses", <<w_COMP3131>>)>>)
         [] spec_code = "SENGAH" ->
              JSONSpecialisation("Software Engineering", "SENGAH", "honours",
                <<JSONComponent("core_courses", "Thesis", <<w_COMP4961, w_co_op>>)>>)]

\* The specialisation files tried: the whole file, and the file without COMPD1.
JsonSpecialisationFiles ==
    {JsonSpecialisations,
     [spec_code \in {"COMPA1", "SENGAH"} |-> JsonSpecialisations[spec_code]]}

\* The program file: a program with course components and views (one of them
\* lists nothing), a program with views only (one lists nothing, SENGAH is listed twice, BINFAH
\* is in no specialisation file) and a program with course components only.
JsonPrograms ==
    [program_code \in {"3778", "3707", "3502"} |->
       CASE program_code = "3778" ->
              JSONProgram("Computer Science", w_3778,
                Some(<<JSONComponent("core_courses", "Core Courses",
                         <<w_COMP1511, w_COMP1521>>),
                       JSONComponent("info_rule", "Maturity Requirements", <<>>),
                       JSONComponent("prescribed_electives", "Electives",
                         <<w_COMP3900, w_COMP9999>>)>>),
                Some(JSONSpecData(
                       Some([direction \in {"Computer Science"} |-> <<"COMPA1", "COMPD1">>]),
                       Some([direction \in {"Computing"} |-> <<>>]),
                       None)))
         [] program_code = "3707" ->
              JSONProgram("Engineering (Honours)", w_3707,
                Some(<<JSONComponent("info_rule", "Maturity Requirements", <<>>)>>),
                Some(JSONSpecData(
                       None,
                       Some([direction \in {"Computing"} |-> <<>>]),
                       Some([direction \in {"Software", "Bioinformatics"} |->
                               IF direction = "Software" THEN <<"SENGAH">>
                               ELSE <<"SENGAH", "BINFAH">>]))))
         [] program_code = "3502" ->
              JSONProgram("Commerce", w_3502,
                Some(<<JSONComponent("core_courses", "Core Courses",
                         <<w_COMM1100, w_COMP1511>>)>>),
                None)]

\* The program files tried: the whole file, and the file without 3502.
JsonProgramFiles ==
    {JsonPrograms, [program_code \in {"3778", "3707"} |-> JsonPrograms[program_code]]}

\* The program codes asked for: the three of the file and one of no file.
AskedPrograms ==
    {ProgramCode_from_str(w).v : w \in {w_3778, w_3707, w_3502, w_9999}}

\* The specialisation codes a filter is made of: the three of the file and
\* one of no file.
FilterCodes == {"COMPA1", "COMPD1", "SENGAH", "XXXXX1"}

MaxFilter == 2

Filters == {None} \cup {Some(f) : f \in Seqs(FilterCodes, MaxFilter)}

New(program_json, specialiastions) ==
    /\ manager = None
    /\ manager' = Some(ProgramManager_new(program_json, specialiastions))
    /\ UNCHANGED <<str_in, str_out, lhs, rhs, cmp, raw, req, shown, build, courses,
                   query, result>>

ManagerLoad(program_json, specialiastions) ==
    /\ manager.some
    /\ query = None
    /\ manager' = Some(ProgramManager_load(manager.v, program_json, specialiastions))
    /\ UNCHANGED <<str_in, str_out, lhs, rhs, cmp, raw, req, shown, build, courses,
                   query, result>>

\* One call of ProgramManager::get_program_structure.
GetProgramStructure(code, recusive, specialiasation_codes) ==
    /\ query' = Some([fn |-> "get_program_structure", code |-> code,
                      recusive |-> recusive,
                      specialiasation_codes |-> specialiasation_codes])
    /\ result' = Some(get_program_structure(manager.v, code, recusive,
                                            specialiasation_codes))
    /\ UNCHANGED <<str_in, str_out, lhs, rhs, cmp, raw, req, shown, build, courses,
                   manager>>

AskStructure ==
    /\ manager.some
    /\ query = None
    /\ \E code \in AskedPrograms, recusive \in BOOLEAN, specialiasation_codes \in Filters :
         GetProgramStructure(code, recusive, specialiasation_codes)

\* One call of ProgramManager::get_course_pool.
GetCoursePool(code) ==
    /\ query' = Some([fn |-> "get_course_pool", code |-> code])
    /\ result' = Some(get_course_pool(manager.v, code))
    /\ UNCHANGED <<str_in, str_out, lhs, rhs, cmp, raw, req, shown, build, courses,
                   manager>>

AskPool ==
    /\ manager.some
    /\ query = None
    /\ \E code \in AskedPrograms : GetCoursePool(code)

\* A pool was returned and the catalog is loaded.
PoolReturned ==
    /\ courses.some
    /\ query.some
    /\ query.v.fn = "get_course_pool"
    /\ result.v.r = "Ok"

\* CourseManager::list_courses_from_pool on the pool that was returned.
ListCoursesFromPool ==
    /\ PoolReturned
    /\ query' = Some([fn |-> "list_courses_from_pool", code |-> query.v.code,
                      search_pool |-> result.v.v])
    /\ result' = Some(list_courses_from_pool(courses.v, result.v.v))
    /\ UNCHANGED <<str_in, str_out, lhs, rhs, cmp, raw, req, shown, build, courses,
                   manager>>

\* The strings a taken-course list is made of here: a catalog course, the two
\* 128 UOC courses and a string that is not a course code.
PoolTakenStrings == {w_COMP1511, w_COMP9991, w_COMP9992, w_abc}

PoolTakenLists == Seqs(PoolTakenStrings, MaxTaken)

PoolWams == {None, Some(65)}

\* CourseManager::list_eligible_courses on the pool that was returned.
ListEligibleCourses(program_code, taken_course, wam) ==
    /\ query' = Some([fn |-> "list_eligible_courses", code |-> query.v.code,
                      search_pool |-> result.v.v, program_code |-> program_code,
                      taken_course |-> taken_course, wam |-> wam])
    /\ result' = Some(list_eligible_courses(courses.v, result.v.v, program_code,
                                            taken_course, wam, build))
    /\ UNCHANGED <<str_in, str_out, lhs, rhs, cmp, raw, req, shown, build, courses,
                   manager>>

AskEligible ==
    /\ PoolReturned
    /\ \E program_code \in ProgramCodes, taken_course \in PoolTakenLists, wam \in PoolWams :
         ListEligibleCourses(program_code, taken_course, wam)

ProgramInit ==
    /\ IdleStr /\ IdleCode /\ IdleParse /\ IdleManager
    /\ build \in {"debug", "release"}
    /\ courses = None
    /\ query = None
    /\ result = None

ProgramNext ==
    \/ \E program_json \in JsonProgramFiles, specialiastions \in JsonSpecialisationFiles :
         New(program_json, specialiastions)
    \/ \E program_json \in JsonProgramFiles, specialiastions \in JsonSpecialisationFiles :
         ManagerLoad(program_json, specialiastions)
    \/ \E json_courses \in JsonFiles : Load(json_courses)
    \/ AskStructure
    \/ AskPool
    \/ ListCoursesFromPool
    \/ AskEligible

SpecProgram == ProgramInit /\ [][ProgramNext]_vars

-----------------------------------------------------------------------------
(* Claims about the structure of a program *)

StructureAsked == query.some /\ query.v.fn = "get_program_structure"

AskedProgramKnown == ProgramCode_to_string(query.v.code) \in DOMAIN manager.v.programs

AskedProgram == manager.v.programs[ProgramCode_to_string(query.v.code)]

\* A view of the program lists the specialisation code.
Referenced(program, spec_code) ==
    /\ program.specialisation_component.some
    /\ \E tier \in {program.specialisation_component.v.major,
                    program.specialisation_component.v.minor,
                    program.specialisation_component.v.honours} :
         /\ tier.some
         /\ \E direction \in DOMAIN tier.v :
              \E i \in 1..Len(tier.v[direction].specialisations) :
                 tier.v[direction].specialisations[i] = spec_code

\* The program's own course components as (title, course strings) entries.
OwnEntries(program) ==
    IF ~program.course_components.some THEN {}
    ELSE {<<title, course_strings(program.course_components.v[title].courses)>> :
            title \in DOMAIN program.course_components.v}

\* C12: get_program_structure of a program code the program map does not have
\* returns the program-not-found error, whatever recursive and the filter are,
\* also when the filter lists unknown or disallowed specialisation codes.
C12_UnknownProgramFirst ==
    (StructureAsked /\ ~AskedProgramKnown)
        => result.v = ErrMsg(ProgramCode_to_string(query.v.code) \o " cannot found in dataset")

C12_Witness ==
    /\ StructureAsked
    /\ ~AskedProgramKnown
    /\ query.v.recusive
    /\ query.v.specialiasation_codes.some
    /\ Len(query.v.specialiasation_codes.v) = 2
    /\ query.v.specialiasation_codes.v[1] \notin DOMAIN manager.v.specialiastions
    /\ query.v.specialiasation_codes.v[2] \in DOMAIN manager.v.specialiastions
    /\ result.v.r = "Err"

FilterAsked ==
    /\ StructureAsked
    /\ AskedProgramKnown
    /\ query.v.recusive
    /\ query.v.specialiasation_codes.some

\* The name of the type a specialisation declares.
DeclaredType(spec) ==
    CASE spec.spec_type = "major" -> "Major"
      [] spec.spec_type = "minor" -> "Minor"
      [] spec.spec_type = "honours" -> "Honours"

\* The entries the i-th listed code stands for.
ListedEntries(spec) ==
    SetToBag({<<DeclaredType(spec) \o " - " \o spec.name \o " - " \o title,
                course_strings(spec.course_components[title].courses)>> :
               title \in DOMAIN spec.course_components})

\* C13: with recursive = true and a filter, the call is Ok exactly when every
\* listed code is a specialisation of the map that the program lists in one of
\* its views; otherwise it is Err; and an Ok result is the program's own
\* entries plus, for every listed code, one entry per component named
\* '{declared type} - {name} - {component}'.
C13_FilterAllOrNothing ==
    FilterAsked =>
      LET codes == query.v.specialiasation_codes.v
          allowed == \A i \in 1..Len(codes) :
                        /\ codes[i] \in DOMAIN manager.v.specialiastions
                        /\ Referenced(AskedProgram, codes[i])
                        /\ programs_contains(manager.v.specialiastions[codes[i]].programs,
                                             query.v.code)
      IN  /\ allowed <=> result.v.r = "Ok"
          /\ ~allowed => result.v.r = "Err"
          /\ allowed =>
               result.v.v = SetToBag(OwnEntries(AskedProgram))
                              (+) BagSum([i \in 1..Len(codes) |->
                                            ListedEntries(manager.v.specialiastions[codes[i]])])

C13_Witness ==
    /\ FilterAsked
    /\ result.v.r = "Ok"
    /\ Len(query.v.specialiasation_codes.v) = 2
    /\ \E i \in 1..2 :
         LET spec == manager.v.specialiastions[query.v.specialiasation_codes.v[i]]
         IN  /\ spec.spec_type = "minor"
             /\ Referenced([AskedProgram EXCEPT !.specialisation_component.v.minor = None,
                                                !.specialisation_component.v.honours = None],
                           spec.code)

\* C14: after new or load, a specialisation of the map has the code of a
\* program among its programs() exactly when one of the program's major, minor
\* or honours views lists the specialisation's code.
C14_BackReference ==
    manager.some =>
      \A p \in DOMAIN manager.v.programs, s \in DOMAIN manager.v.specialiastions :
         programs_contains(manager.v.specialiastions[s].programs, manager.v.programs[p].code)
           <=> Referenced(manager.v.programs[p], s)

C14_Witness ==
    /\ manager.some
    /\ \E p \in DOMAIN manager.v.programs, s \in DOMAIN manager.v.specialiastions :
         /\ Referenced(manager.v.programs[p], s)
         /\ ~manager.v.programs[p].specialisation_component.v.major.some
         /\ programs_contains(manager.v.specialiastions[s].programs,
                              manager.v.programs[p].code)
    /\ \E p \in DOMAIN manager.v.programs, s \in DOMAIN manager.v.specialiastions :
         /\ ~Referenced(manager.v.programs[p], s)
         /\ ~programs_contains(manager.v.specialiastions[s].programs,
                               manager.v.programs[p].code)
    /\ \E p \in DOMAIN manager.v.programs :
         Referenced(manager.v.programs[p], "COMPD1") /\ "COMPD1" \notin DOMAIN manager.v.specialiastions

\* The entries of the views of a program that list at least one code.
ViewEntries(program) ==
    IF ~program.specialisation_component.some THEN {}
    ELSE LET component == program.specialisation_component.v
             tier_of == [name \in {"Major", "Minor", "Honours"} |->
                           CASE name = "Major" -> component.major
                             [] name = "Minor" -> component.minor
                             [] name = "Honours" -> component.honours]
         IN  UNION {IF ~tier_of[name].some THEN {}
                    ELSE {<<name \o " - " \o direction,
                            tier_of[name].v[direction].specialisations>> :
                           direction \in {d \in DOMAIN tier_of[name].v :
                                            tier_of[name].v[d].specialisations # <<>>}} :
                    name \in {"Major", "Minor", "Honours"}}

\* C18: with recursive = false the call on a program of the map is Ok with the
\* program's own (title, course strings) entries and exactly one
\* ('{Tier} - {direction}', codes) entry for each view that lists a code, and
\* nothing else, also for a program without course components.
C18_NonRecursiveStructure ==
    (StructureAsked /\ AskedProgramKnown /\ ~query.v.recusive)
        => result.v = OkVal(SetToBag(OwnEntries(AskedProgram) \cup ViewEntries(AskedProgram)))

C18_Witness ==
    /\ StructureAsked
    /\ AskedProgramKnown
    /\ ~query.v.recusive
    /\ ~AskedProgram.course_components.some
    /\ AskedProgram.specialisation_component.some
    /\ AskedProgram.specialisation_component.v.minor.some
    /\ \E direction \in DOMAIN AskedProgram.specialisation_component.v.minor.v :
         AskedProgram.specialisation_component.v.minor.v[direction].specialisations = <<>>
    /\ result.v.r = "Ok"
    /\ result.v.v # EmptyBag

-----------------------------------------------------------------------------
(* Claims about the course pool *)

\* The exact codes an entry lists: itself, or the members of an alternative.
ExactCodesOf(course) ==
    CASE course.kind = "Course" ->
           IF is_course_code(course.c) THEN {CourseCode_to_string(course.c)} ELSE {}
      [] course.kind = "Alternative" ->
           {CourseCode_to_string(course.ac.courses[i]) :
              i \in {i \in 1..Len(course.ac.courses) : is_course_code(course.ac.courses[i])}}
      [] course.kind = "Text" -> {}

ExactCodesIn(course_components) ==
    UNION {UNION {ExactCodesOf(course_components[title].courses[i]) :
                    i \in 1..Len(course_components[title].courses)} :
           title \in DOMAIN course_components}

\* The exact codes listed in the program's own course components and in those
\* of every specialisation of the map that a view of the program lists.
ListedCodes(program) ==
    (IF program.course_components.some
     THEN ExactCodesIn(program.course_components.v) ELSE {})
      \cup UNION {ExactCodesIn(manager.v.specialiastions[s].course_components) :
                  s \in {s \in DOMAIN manager.v.specialiastions : Referenced(program, s)}}

PoolAsked == query.some /\ query.v.fn = "get_course_pool"

PoolResolved == query.some /\ query.v.fn = "list_courses_from_pool"

\* Every catalog course whose code the program lists is in the resolved pool.
PoolCoversListed ==
    PoolResolved =>
      \A key \in DOMAIN courses.v :
         key \in ListedCodes(AskedProgram) => courses.v[key] \in result.v

\* C15: for every program of the map get_course_pool returns a pool, and the
\* pool resolved against the catalog contains every catalog course whose exact
\* code is listed, directly or in an alternative, in the program's own course
\* components or in those of a specialisation that a view of the program lists.
C15_PoolMembership ==
    /\ (PoolAsked /\ AskedProgramKnown) => result.v.r = "Ok"
    /\ PoolCoversListed

\* The pool of a program whose views list a code the map does not have.
C15_Aborted ==
    /\ PoolAsked
    /\ AskedProgramKnown
    /\ AskedProgram.course_components.some
    /\ result.v = Panic

EligibleAsked == query.some /\ query.v.fn = "list_eligible_courses"

\* The courses of the resolved pool whose is_eligible is Ok(true).
EligibleOfPool ==
    {course \in pool(query.v.search_pool, courses.v) :
       is_eligible(course, query.v.program_code, query.v.taken_course, query.v.wam,
                   courses.v, build) = OkBool(TRUE)}

\* When the call returns, it returns the courses whose is_eligible is Ok(true).
EligibleWhenReturned ==
    (EligibleAsked /\ result.v.kind = "ok") => result.v.v = EligibleOfPool

\* C16: list_eligible_courses always returns, and returns exactly the courses
\* of the resolved pool whose is_eligible is Ok(true) for the given program
\* code, taken list and WAM (a course whose evaluation is an error is left out).
C16_ListEligible ==
    EligibleAsked => result.v = Returned(EligibleOfPool)

\* The call aborted on an overflowing UOC sum.
C16_Aborted ==
    /\ EligibleAsked
    /\ result.v = Panicked
    /\ build = "debug"

-----------------------------------------------------------------------------
(* Structural parse errors at the construction boundary                      *)

\* The tokens the parser is given for the text under construction.
Tokens == tokenize(clean(raw))

IsBracket(token, b) == token.t = "BRACKET" /\ token.b = b

\* Opening minus closing brackets among tokens[i..j].
RECURSIVE Net(_, _, _)
Net(tokens, i, j) ==
    IF j < i THEN 0
    ELSE Net(tokens, i, j - 1)
           + (IF IsBracket(tokens[j], "OPEN") THEN 1
              ELSE IF IsBracket(tokens[j], "CLOSE") THEN -1 ELSE 0)

\* Some opening bracket is closed by no later token.
Unclosed(tokens) ==
    \E i \in 1..Len(tokens) :
        /\ IsBracket(tokens[i], "OPEN")
        /\ \A j \in i..Len(tokens) : Net(tokens, i, j) > 0

\* After whole codes and commas only, two codes stand side by side at the
\* start of a clause and a token of the given kind follows them: that token
\* is reached while two nodes are pending.
TwoPendingThen(tokens, kind) ==
    \E i \in 1..Len(tokens) :
        /\ i + 2 <= Len(tokens)
        /\ \A j \in 1..(i - 1) : tokens[j].t \in {"CODE", "COMMA"}
        /\ i > 1 => tokens[i - 1].t = "COMMA"
        /\ tokens[i].t = "CODE"
        /\ tokens[i + 1].t = "CODE"
        /\ tokens[i + 2].t = kind

Constructed == req # NotCalled

\* A course of the catalogue built from the text carries no Requirements.
CarriesNoRequirements ==
    parse_json_course(JSONCourse(w_COMP1511, 6, "Sydney", "CSE", raw)).requirements = None

\* A comma or an operator reached with two pending nodes fails the construction.
PendingErrorsFail ==
    (Constructed /\ (TwoPendingThen(Tokens, "COMMA") \/ TwoPendingThen(Tokens, "OPERATOR")))
        => (req.res = None /\ CarriesNoRequirements)

\* An unclosed bracket fails the construction unless a number stands right
\* before an opening bracket (the NUMBER arm takes the token after it).
UnclosedFailsUnlessAfterNumber ==
    (/\ Constructed
     /\ Unclosed(Tokens)
     /\ \A i \in 2..Len(Tokens) :
            IsBracket(Tokens[i], "OPEN") => Tokens[i - 1].t # "NUMBER")
        => (req.res = None /\ CarriesNoRequirements)

\* C17: try_new returns None when the prerequisite text has an unclosed
\* bracket, when a comma is reached while more than one node is pending, or
\* when an and/or operator is reached while more than one node is pending;
\* the course then carries no Requirements.
C17_StructuralErrors ==
    (/\ Constructed
     /\ \/ Unclosed(Tokens)
        \/ TwoPendingThen(Tokens, "COMMA")
        \/ TwoPendingThen(Tokens, "OPERATOR"))
        => (req.res = None /\ CarriesNoRequirements)

\* The text "Prerequisites: 12 ( COMP1511" has been constructed.
C17_NumberBeforeBracket ==
    /\ raw = <<w_Prerequisites, w_12, w_open, w_COMP1511>>
    /\ Constructed

-----------------------------------------------------------------------------
(* Binary nodes in the evaluator                                             *)

\* The binary nodes of a tree.
RECURSIVE BinaryNodes(_)
BinaryNodes(node) ==
    CASE node.k = "List" ->
           UNION {BinaryNodes(node.nodes[i]) : i \in 1..Len(node.nodes)}
      [] node.k = "Binary" ->
           {node} \cup BinaryNodes(node.left) \cup BinaryNodes(node.right)
      [] OTHER -> {}

AskedBinaryNodes == IF Asked /\ HasTree THEN BinaryNodes(AskedTree) ELSE {}

\* The left operand decides: false under AND, true under OR.
LeftDecides(n) ==
    \/ n.operator = "AND" /\ Eval(n.left) = OkBool(FALSE)
    \/ n.operator = "OR" /\ Eval(n.left) = OkBool(TRUE)

\* C19: an AND node whose left operand is false is Ok(false) and an OR node
\* whose left operand is true is Ok(true), whatever the right operand would
\* return (an error included); a node whose left operand returns an error or
\* aborts returns that; in all other cases the node's result is the right
\* operand's result.
C19_ShortCircuit ==
    \A n \in AskedBinaryNodes :
        Eval(n) = IF LeftDecides(n) THEN Eval(n.left)
                  ELSE IF Eval(n.left).r # "Ok" THEN Eval(n.left)
                  ELSE Eval(n.right)

\* A short circuit has hidden an error of the right operand.
C19_Witness ==
    \E n \in AskedBinaryNodes :
        /\ LeftDecides(n)
        /\ Eval(n.right).r = "Err"
        /\ Eval(n) = OkBool(n.operator = "OR")

\* The statement without the left operand's error: the left operand decides,
\* and in all other cases the node's result is the right operand's result.
C19_RightOperandOtherwise ==
    \A n \in AskedBinaryNodes :
        Eval(n) = IF LeftDecides(n) THEN Eval(n.left) ELSE Eval(n.right)

\* A node whose left operand returned an error the right operand does not.
C19_LeftError ==
    \E n \in AskedBinaryNodes :
        /\ Eval(n.left).r = "Err"
        /\ Eval(n.right).r = "Ok"
        /\ Eval(n) = Eval(n.left)

-----------------------------------------------------------------------------
(* The UOC quantifier in the parser                                          *)

\* Every node of a tree.
RECURSIVE Nodes(_)
Nodes(node) ==
    CASE node.k = "List" ->
           {node} \cup UNION {Nodes(node.nodes[i]) : i \in 1..Len(node.nodes)}
      [] node.k = "Binary" -> {node} \cup Nodes(node.left) \cup Nodes(node.right)
      [] OTHER -> {node}

IsKeyword(token, k) == token.t = "KEYWORD" /\ token.k = k

IsPreposition(token, p) == token.t = "PREPOSITION" /\ token.p = p

\* After whole codes and commas only, tokens[i] is a number and tokens[i + 1]
\* the UOC keyword, and no FROM or AT follows: the NUMBER arm is entered on
\* tokens[i] at the top level.
BareQuantityAt(tokens, i) ==
    /\ i + 1 <= Len(tokens)
    /\ \A j \in 1..(i - 1) : tokens[j].t \in {"CODE", "COMMA"}
    /\ tokens[i].t = "NUMBER"
    /\ IsKeyword(tokens[i + 1], "UOC")
    /\ i + 2 <= Len(tokens) =>
          ~(IsPreposition(tokens[i + 2], "FROM") \/ IsPreposition(tokens[i + 2], "AT"))

\* The constructed Requirements hold a bare UOC node of threshold n.
HasUOCNode(n) ==
    /\ req.res.v.contents.some
    /\ UOCNode(n) \in Nodes(req.res.v.contents.v)

ConstructedSome == Constructed /\ req.res.some

\* A number and UOC with nothing after them give the bare UOC node.
BareQuantityAtEnd ==
    \A i \in 1..Len(Tokens) :
        (ConstructedSome /\ BareQuantityAt(Tokens, i) /\ i + 1 = Len(Tokens))
            => HasUOCNode(Tokens[i].n)

\* 'finish 112 UOC overall' renders 'Complete at least 112 UOC'.
RendersOverall ==
    (raw = test_uoc_overall /\ shown.some) => shown.v = "Complete at least 112 UOC"

\* C20: a NUMBER token followed by the UOC keyword and by no FROM or AT
\* preposition gives a bare UOC node with that number as threshold, whatever
\* comes next (end of input, an operator, a comma, a bracket or a code).
C20_BareUOC ==
    \A i \in 1..Len(Tokens) :
        (ConstructedSome /\ BareQuantityAt(Tokens, i)) => HasUOCNode(Tokens[i].n)

\* The text "Prerequisites: 12 UOC , COMP1511" has been constructed and displayed.
C20_QuantityBeforeComma ==
    /\ raw = <<w_Prerequisites, w_12, w_UOC, w_comma, w_COMP1511>>
    /\ ConstructedSome
    /\ shown = Some("COMP1511")

-----------------------------------------------------------------------------
(* The UOC-from sub-parser                                                   *)

\* The text is "N UOC from ...".
IsFromClause(tokens) ==
    /\ Len(tokens) >= 3
    /\ tokens[1].t = "NUMBER"
    /\ IsKeyword(tokens[2], "UOC")
    /\ IsPreposition(tokens[3], "FROM")

IsRunToken(token) == token.t = "CODE" \/ (token.t = "OPERATOR" /\ token.op = "OR")

\* The length of the run of CODE and OR tokens tokens starts with.
RECURSIVE RunLength(_)
RunLength(tokens) ==
    IF tokens = <<>> \/ ~IsRunToken(Head(tokens)) THEN 0
    ELSE 1 + RunLength(Tail(tokens))

\* The codes of that run, in order.
RunCodes(tokens) ==
    LET run == SelectSeq(SubSeq(tokens, 1, RunLength(tokens)), LAMBDA t : t.t = "CODE")
    IN  [i \in 1..Len(run) |-> run[i].code]

AfterFrom == SubSeq(Tokens, 4, Len(Tokens))

AfterRun == SubSeq(AfterFrom, RunLength(AfterFrom) + 1, Len(AfterFrom))

\* UOCFromNode::parse on the vector the NUMBER arm hands it: FROM on top.
FromParsed == UOCFromNode_parse(Tokens[1].n, Reverse(SubSeq(Tokens, 3, Len(Tokens))))

FromConstructed == Constructed /\ IsFromClause(Tokens)

\* A run of course codes and ORs up to the end of the text is collected in order.
FromRunToEnd ==
    (/\ FromConstructed
     /\ AfterRun = <<>>
     /\ RunCodes(AfterFrom) # <<>>
     /\ \A i \in 1..Len(AfterFrom) : AfterFrom[i].t = "CODE" => AfterFrom[i].kind = "COURSE")
        => /\ FromParsed = Parsed(UOCFromNode(Tokens[1].n, RunCodes(AfterFrom)), <<>>)
           /\ req.res = Some([contents |-> Some(UOCFromNode(Tokens[1].n, RunCodes(AfterFrom))),
                              raw |-> raw])

\* A run ended by a token other than an operator is an error, whatever was collected.
FromRunEndedByOther ==
    (FromConstructed /\ AfterRun # <<>> /\ AfterRun[1].t # "OPERATOR")
        => (~FromParsed.ok /\ req.res = None)

\* 'N UOC from following course A or B or C' renders the three codes.
RendersFrom ==
    (raw = test_uoc_from /\ shown.some)
        => shown.v = "Complete 6 UOC from following course [COMM1100, COMM1120, COMM1140]"

\* C21: the UOC-from sub-parser collects, in order, the codes of the run of
\* CODE tokens separated by OR operators that follows FROM, stops at the first
\* token that is neither a CODE nor an OR and leaves the rest to the enclosing
\* parse, and returns an error only when no code was collected.
C21_UOCFromRun ==
    FromConstructed =>
        IF RunCodes(AfterFrom) = <<>> THEN ~FromParsed.ok
        ELSE FromParsed = Parsed(UOCFromNode(Tokens[1].n, RunCodes(AfterFrom)),
                                 Reverse(AfterRun))

\* The text "Prerequisites: 6 UOC from COMP1511 , COMM1100" has been constructed.
C21_RunEndedByComma ==
    /\ raw = <<w_Prerequisites, w_6, w_UOC, w_from, w_COMP1511, w_comma, w_COMM1100>>
    /\ Constructed
    /\ req.res = None

-----------------------------------------------------------------------------
(* The 'WAM of N' sub-parser                                                 *)

\* The text starts with the WAM keyword: the KEYWORD arm is entered on it.
WamConstructed == Constructed /\ Len(Tokens) >= 1 /\ IsKeyword(Tokens[1], "WAM")

\* WamNode::parse on the tokens after the keyword.
WamParsed == WamNode_parse(Reverse(Tail(Tokens)))

OfThenNumber ==
    /\ Len(Tokens) >= 3
    /\ IsPreposition(Tokens[2], "OF")
    /\ Tokens[3].t = "NUMBER"

\* OF and a number give a WAM node with that number as threshold.
WamOfNumber ==
    (WamConstructed /\ OfThenNumber)
        => WamParsed = Parsed(WamNode(Tokens[3].n), Reverse(SubSeq(Tokens, 4, Len(Tokens))))

\* No OF after WAM, or nothing after the OF, is a structural error.
WamWithoutOf ==
    (WamConstructed /\ (Len(Tokens) < 3 \/ ~IsPreposition(Tokens[2], "OF")))
        => (~WamParsed.ok /\ req.res = None)

\* C22: the 'WAM of N' sub-parse of a standalone WAM keyword is a structural
\* error unless the next two tokens are an OF preposition and a NUMBER; on
\* success the threshold of the WAM node is that number.
C22_WamOfNumberOrError ==
    WamConstructed =>
        IF OfThenNumber
        THEN WamParsed = Parsed(WamNode(Tokens[3].n), Reverse(SubSeq(Tokens, 4, Len(Tokens))))
        ELSE ~WamParsed.ok /\ req.res = None

\* The text "Prerequisites: WAM of COMP1511" has been constructed and displayed.
C22_WamOfCode ==
    /\ raw = <<w_Prerequisites, w_WAM, w_of, w_COMP1511>>
    /\ Constructed
    /\ shown = Some("WAM of at least 0")

-----------------------------------------------------------------------------
(* Bulk walks over the specialisation views of a program                     *)

\* A view of the program lists a code the specialisation map does not have.
MissingListed(program) ==
    \E l \in listings(program) :
        listed_code(program, l) \notin DOMAIN manager.v.specialiastions

\* The places where the program lists a specialisation of the map.
FoundListings(program) ==
    {l \in listings(program) : listed_code(program, l) \in DOMAIN manager.v.specialiastions}

\* The entries of a specialisation listed in tier k: one per component.
TierEntries(k, spec) ==
    SetToBag({<<TierNames[k] \o " - " \o spec.name \o " - " \o title,
                course_strings(spec.course_components[title].courses)>> :
               title \in DOMAIN spec.course_components})

\* The structure of the remaining specialisations and the program's own components.
RemainingStructure(program) ==
    SetToBag(OwnEntries(program))
      (+) BagSum([l \in FoundListings(program) |->
                    TierEntries(l[1], manager.v.specialiastions[listed_code(program, l)])])

\* The pool of the remaining specialisations and the program's own components.
RemainingPool(program) ==
    LET own == IF program.course_components.some
               THEN component_courses(program.course_components.v) ELSE {}
        found == UNION {component_courses(
                          manager.v.specialiastions[listed_code(program, l)].course_components) :
                        l \in FoundListings(program)}
    IN  new_from_set(UNION {Elements(to_course_codes(course)) : course \in own \cup found})

BulkStructureAsked ==
    /\ StructureAsked
    /\ AskedProgramKnown
    /\ query.v.recusive
    /\ ~query.v.specialiasation_codes.some

\* The recursive walk without a filter skips a missing specialisation.
StructureSkipsMissing ==
    (BulkStructureAsked /\ MissingListed(AskedProgram))
        => result.v = OkVal(RemainingStructure(AskedProgram))

\* The recursive walk has skipped a missing specialisation and kept another.
StructureSkipped ==
    /\ BulkStructureAsked
    /\ MissingListed(AskedProgram)
    /\ FoundListings(AskedProgram) # {}
    /\ result.v = OkVal(RemainingStructure(AskedProgram))

\* get_course_pool returns the pool of all listed specialisations when none is missing.
PoolOfAllListed ==
    (PoolAsked /\ AskedProgramKnown /\ ~MissingListed(AskedProgram))
        => result.v = OkVal(RemainingPool(AskedProgram))

\* C23: in get_program_structure with recursive = true and no filter, and in
\* get_course_pool, a listed specialisation code missing from the
\* specialisation map is skipped and the call completes with Ok holding the
\* entries of the remaining specialisations and of the program's own components.
C23_MissingSkipped ==
    /\ (BulkStructureAsked /\ MissingListed(AskedProgram))
          => result.v = OkVal(RemainingStructure(AskedProgram))
    /\ (PoolAsked /\ AskedProgramKnown /\ MissingListed(AskedProgram))
          => result.v = OkVal(RemainingPool(AskedProgram))

\* get_course_pool on a program that lists a found and a missing specialisation.
C23_PoolAborted ==
    /\ PoolAsked
    /\ AskedProgramKnown
    /\ MissingListed(AskedProgram)
    /\ FoundListings(AskedProgram) # {}
    /\ result.v = Panic

-----------------------------------------------------------------------------
(* Keyword classification in the tokenizer                                   *)

\* The text is a keyword variant between COMP1511 and COMM1100.
IsKeywordInput == raw \in KeywordInputs

\* The lower-case word the variant is a variant of.
VariantOf(v) == CHOOSE w \in KeywordWords : v \in CaseVariants(w)

\* The token the keyword stands for.
KeywordTokenOf(w) ==
    CASE w = w_or -> OPERATOR("OR")
      [] w = w_and -> OPERATOR("AND")
      [] w \in {w_uoc, w_uocs} -> KEYWORD("UOC")
      [] w = w_wam -> KEYWORD("WAM")
      [] w = w_at -> PREPOSITION("AT")
      [] w = w_from -> PREPOSITION("FROM")
      [] w = w_of -> PREPOSITION("OF")
      [] w = w_level -> KEYWORD("LEVEL")

CodeTokenOf(w) == CODE_COURSE(CourseCode_from_str(w).v)

\* The spellings the match of tokenize lists.
ListedSpellings ==
    {"or", "OR", "Or", "and", "AND", "And", "UOC", "uoc", "Uoc", "UOCs", "WAM", "wam",
     "Wam", "at", "AT", "from", "FROM", "of", "OF", "level", "LEVEL"}

\* A listed spelling is classified, and the tokens keep the order of the words.
ListedSpellingClassified ==
    (Constructed /\ IsKeywordInput /\ Str(raw[3]) \in ListedSpellings)
        => Tokens = <<CodeTokenOf(w_COMP1511), KeywordTokenOf(VariantOf(raw[3])),
                      CodeTokenOf(w_COMM1100)>>

\* Any other spelling gives no token at all.
OtherSpellingDropped ==
    (Constructed /\ IsKeywordInput /\ Str(raw[3]) \notin ListedSpellings)
        => Tokens = <<CodeTokenOf(w_COMP1511), CodeTokenOf(w_COMM1100)>>

\* C24: every letter-case variant of 'or', 'and', 'uoc', 'uocs', 'wam', 'at',
\* 'from', 'of' and 'level' is mapped to its OR / AND / UOC / WAM / AT / FROM /
\* OF / LEVEL token, and tokens are emitted in left-to-right input order.
C24_CaseInsensitiveKeywords ==
    (Constructed /\ IsKeywordInput)
        => Tokens = <<CodeTokenOf(w_COMP1511), KeywordTokenOf(VariantOf(raw[3])),
                      CodeTokenOf(w_COMM1100)>>

\* The text "Prerequisites: COMP1511 oR COMM1100" has been constructed: the
\* two codes are left side by side and the parse fails.
C24_MixedCaseOr ==
    /\ raw = <<w_Prerequisites, w_COMP1511, <<"o", "R">>, w_COMM1100>>
    /\ Constructed
    /\ Tokens = <<CodeTokenOf(w_COMP1511), CodeTokenOf(w_COMM1100)>>
    /\ req.res = None

-----------------------------------------------------------------------------
(* adjust_pattern: lowering and raising the counters                         *)

\* A code with all eight slots live and concrete.
IsExactCode(c) ==
    LiveCounters(c) /\ c.num_of_match_school = 4 /\ c.num_of_match_code = 4

\* adjust_pattern sets the counters and leaves the filler in every slot beyond them.
AdjustSetsCounters ==
    lhs.some =>
      \A a \in 0..4, b \in 0..4 :
         LET adjusted == adjust_pattern(lhs.v, a, b)
         IN  /\ adjusted.num_of_match_school = a
             /\ adjusted.num_of_match_code = b
             /\ \A i \in 1..4 : i > a => adjusted.school_code[i] = SchoolFiller[i]
             /\ \A i \in 1..4 : i > b => adjusted.course_code[i] = NumberFiller[i]

\* C25: adjust_pattern(a, b) with a, b in 0..4 sets the counters to a and b
\* and fills the slots beyond them, and raising a counter reveals the
\* characters first captured: lowering the counters of an exact code and then
\* calling adjust_pattern(4, 4) restores the exact code and its display string.
C25_AdjustRoundTrip ==
    (lhs.some /\ IsExactCode(lhs.v)) =>
      \A a \in 0..4, b \in 0..4 :
         LET lowered == adjust_pattern(lhs.v, a, b)
             raised == adjust_pattern(lowered, 4, 4)
         IN  /\ lowered.num_of_match_school = a
             /\ lowered.num_of_match_code = b
             /\ raised = lhs.v
             /\ CourseCode_to_string(raised) = CourseCode_to_string(lhs.v)

\* COMP1511 after adjust_pattern(4, 1) and adjust_pattern(4, 4).
C25_NotRestored ==
    /\ lhs.some
    /\ lhs.v.num_of_match_school = 4
    /\ lhs.v.num_of_match_code = 4
    /\ CourseCode_to_string(lhs.v) = "COMP1###"

-----------------------------------------------------------------------------
(* CourseCode::parse on every string                                         *)

ParseCalled == str_out.fn = "parse"

\* An exact code (four alphabetic and four numeric characters) or a shorter
\* prefix of one.
IsCodePrefix(s) ==
    /\ Len(s) <= 8
    /\ \A i \in 1..Len(s) :
          IF i <= 4 THEN is_ascii_alphabetic(s[i]) ELSE is_numeric(s[i])

\* parse returns for every string of at most eight characters.
ParseReturnsUpToEight == (ParseCalled /\ Len(str_in) <= 8) => str_out.res.kind = "ok"

\* A character among the fifth to the ninth that is not numeric gives None.
ParseRejectsNonNumericTail ==
    (ParseCalled /\ \E i \in 5..Len(str_in) : i <= 9 /\ ~is_numeric(str_in[i]))
        => str_out.res = Returned(None)

\* C26: CourseCode::parse is total, it returns a code or None for every
\* string, and it returns None for every string that is neither an exact code
\* nor a shorter prefix of one (strings of more than 8 characters and strings
\* with a non-alphabetic character among the first four included).
C26_ParseTotal ==
    ParseCalled =>
      /\ str_out.res.kind = "ok"
      /\ ~IsCodePrefix(str_in) => str_out.res = Returned(None)

\* parse of "CCCC11111": the ninth character is written past the number slots.
C26_NinthCharacter ==
    /\ ParseCalled
    /\ str_in = <<"C", "C", "C", "C", "1", "1", "1", "1", "1">>
    /\ str_out.res = Panicked

\* parse of "1C" returns a code.
ParseSkipsLeadingDigit ==
    /\ ParseCalled
    /\ str_in = <<"1", "C">>
    /\ str_out.res.kind = "ok"
    /\ str_out.res.v.some

-----------------------------------------------------------------------------
(* SpecLoop: Requirements::try_new iteration by iteration. req holds the     *)
(* call stack of Requirements::parse: the last record is the running call    *)
(* (its loop state, or the result it returns), the records below it are the  *)
(* callers waiting in an operator or a bracket arm.                          *)

\* Requirements::parse and the head of do_parse: the tokens are reversed, no
\* token at all returns Ok(None).
enter_parse(tokens) ==
    IF Len(tokens) = 0 THEN Return(Ok(None)) ELSE Continue(Reverse(tokens), <<>>, <<>>)

Parsing == req.fn = "parse"

Top == req.stack[Len(req.stack)]

\* try_new is called: clean, tokenize, and the call of parse.
Begin ==
    /\ req = NotCalled
    /\ req' = [fn |-> "parse", stack |-> <<enter_parse(tokenize(clean(raw)))>>]
    /\ UNCHANGED <<str_in, str_out, lhs, rhs, cmp, raw, shown, build, courses, query, result,
                 manager>>

\* One iteration of the loop of the running call that calls nothing.
Iterate ==
    /\ Parsing
    /\ Top.step = "continue"
    /\ LET s == do_parse_step(Top.tokens, Top.buffer, Top.parsed_node)
       IN  /\ s.step # "recurse"
           /\ req' = [req EXCEPT !.stack[Len(req.stack)] = s]
    /\ UNCHANGED <<str_in, str_out, lhs, rhs, cmp, raw, shown, build, courses, query, result,
                 manager>>

\* One iteration that calls Requirements::parse on a right operand or a bracket.
Descend ==
    /\ Parsing
    /\ Top.step = "continue"
    /\ LET s == do_parse_step(Top.tokens, Top.buffer, Top.parsed_node)
       IN  /\ s.step = "recurse"
           /\ req' = [req EXCEPT !.stack =
                         Append([req.stack EXCEPT ![Len(req.stack)] = s],
                                enter_parse(s.sub_tokens))]
    /\ UNCHANGED <<str_in, str_out, lhs, rhs, cmp, raw, shown, build, courses, query, result,
                 manager>>

\* The running call returns to the arm that called it.
ReturnToCaller ==
    /\ Parsing
    /\ Top.step = "return"
    /\ Len(req.stack) > 1
    /\ LET caller == req.stack[Len(req.stack) - 1]
       IN  req' = [req EXCEPT !.stack =
                     [Front(req.stack) EXCEPT ![Len(req.stack) - 1] =
                                                 resume(caller, Top.result)]]
    /\ UNCHANGED <<str_in, str_out, lhs, rhs, cmp, raw, shown, build, courses, query, result,
                 manager>>

\* The outermost call returns to try_new.
Finish ==
    /\ Parsing
    /\ Top.step = "return"
    /\ Len(req.stack) = 1
    /\ req' = [fn |-> "try_new",
               res |-> IF ~Top.result.ok THEN None
                       ELSE Some([contents |-> Top.result.node, raw |-> raw])]
    /\ UNCHANGED <<str_in, str_out, lhs, rhs, cmp, raw, shown, build, courses, query, result,
                 manager>>

LoopInputs == MixedInputs \cup FromInputs \cup WamInputs \cup TestInputs

LoopInit ==
    /\ IdleStr /\ IdleCode /\ IdleCatalog /\ IdleManager
    /\ raw \in LoopInputs
    /\ req = NotCalled
    /\ shown = None

LoopNext == Begin \/ Iterate \/ Descend \/ ReturnToCaller \/ Finish

SpecLoop == LoopInit /\ [][LoopNext]_vars

-----------------------------------------------------------------------------
(* Termination of Requirements::parse                                        *)

\* The tokens a call of the stack still holds.
FrameTokens(frame) == IF frame.step = "return" THEN 0 ELSE Len(frame.tokens)

RECURSIVE SumTokens(_)
SumTokens(stack) ==
    IF stack = <<>> THEN 0 ELSE FrameTokens(Head(stack)) + SumTokens(Tail(stack))

\* The calls still open, a call that is returning counted less than a running one.
Rank(stack) == 2 * Len(stack) - (IF Last(stack).step = "return" THEN 1 ELSE 0)

\* The stack is well formed: callers wait in an arm, the last call runs or returns.
StackShape ==
    Parsing =>
      /\ Len(req.stack) >= 1
      /\ Top.step \in {"continue", "return"}
      /\ \A i \in 1..(Len(req.stack) - 1) : req.stack[i].step = "recurse"

\* The step machine ends with what try_new returns.
LoopEndsAsTryNew == req.fn = "try_new" => req.res = try_new(raw)

\* An iteration of the running call that goes on leaves fewer tokens.
IterationConsumes ==
    (Len(req.stack') = Len(req.stack) /\ Top.step = "continue"
       /\ req.stack'[Len(req.stack')].step = "continue")
        => Len(req.stack'[Len(req.stack')].tokens) < Len(Top.tokens)

\* A recursive call gets fewer tokens than its caller had, and so do the
\* call and its caller together.
CallGetsFewer ==
    (Len(req.stack') = Len(req.stack) + 1)
        => /\ FrameTokens(req.stack'[Len(req.stack')]) < Len(Top.tokens)
           /\ SumTokens(req.stack') < SumTokens(req.stack)

\* Every step lowers the pair (tokens held, calls open) in the lexicographic order.
MeasureDecreases ==
    \/ SumTokens(req.stack') < SumTokens(req.stack)
    \/ /\ SumTokens(req.stack') = SumTokens(req.stack)
       /\ Rank(req.stack') < Rank(req.stack)

\* C27: Requirements::parse terminates on every token sequence: every
\* iteration of the main loop, sub-parsers included, consumes at least one
\* token, every recursive call gets strictly fewer tokens than its caller, so
\* every step lowers a well-founded measure until the call returns Ok or Err.
C27_ParseTerminates ==
    [][(Parsing /\ req'.fn = "parse")
         => (IterationConsumes /\ CallGetsFewer /\ MeasureDecreases)]_vars

\* A running call two calls deep.
C27_Witness ==
    /\ Parsing
    /\ Len(req.stack) >= 3
    /\ Top.step = "continue"
    /\ Top.tokens # <<>>

-----------------------------------------------------------------------------
(* Operators without a left operand                                          *)

\* The running call is about to read an and/or operator while no node is
\* pending in its buffer.
OperatorWithoutLeft ==
    /\ Parsing
    /\ Top.step = "continue"
    /\ Top.tokens # <<>>
    /\ Last(Top.tokens).t = "OPERATOR"
    /\ Len(Top.buffer) = 0

\* The running call goes on with the tokens after the operator; its buffer,
\* its completed items and its callers are as before.
OperatorSkipped ==
    req' = [req EXCEPT !.stack[Len(req.stack)] =
                          Continue(Front(Top.tokens), Top.buffer, Top.parsed_node)]

edge_list == ListNode(<<CodeNode(CodeTokenOf(w_COMP1511)), CodeNode(CodeTokenOf(w_COMM1100))>>)

\* C28: an and/or operator reached while no pending left operand is buffered
\* (at the start of a clause or directly after a comma) is skipped without
\* error and the parse goes on with the following tokens, so that
\* 'COMP1511, and COMM1100' parses to the List of COMP1511 and COMM1100.
C28_LenientOperator ==
    /\ [][OperatorWithoutLeft => OperatorSkipped]_vars
    /\ []((raw = test_edge_list /\ req.fn = "try_new")
            => req.res = Some([contents |-> Some(edge_list), raw |-> raw]))

\* 'COMP1511, and COMM1100' has been parsed to the List of its two codes.
C28_Witness ==
    /\ raw = test_edge_list
    /\ req.fn = "try_new"
    /\ req.res = Some([contents |-> Some(edge_list), raw |-> raw])

\* The operator of 'COMP1511, and COMM1100' is about to be read after the
\* comma completed COMP1511.
OperatorAfterComma ==
    /\ raw = test_edge_list
    /\ OperatorWithoutLeft
    /\ Len(Top.parsed_node) = 1

\* ---------------------------------------------------------------------------
\* Brackets.

\* Every closing bracket closes an earlier opening one and every opening
\* bracket is closed.
Balanced(tokens) ==
    /\ Net(tokens, 1, Len(tokens)) = 0
    /\ \A j \in 1..Len(tokens) : Net(tokens, 1, j) >= 0

HasBracket(tokens) == \E i \in 1..Len(tokens) : tokens[i].t = "BRACKET"

\* The first comma after an operator stands inside a bracket opened after
\* that operator.
CommaInRightGroup(tokens) ==
    \E i \in 1..Len(tokens) : \E k \in i + 1..Len(tokens) :
        /\ tokens[i].t = "OPERATOR"
        /\ tokens[k].t = "COMMA"
        /\ \A j \in i + 1..k - 1 : tokens[j].t # "COMMA"
        /\ Net(tokens, i + 1, k) > 0

\* A number stands directly before an opening bracket.
NumberBeforeBracket(tokens) ==
    \E i \in 1..Len(tokens) - 1 :
        tokens[i].t = "NUMBER" /\ IsBracket(tokens[i + 1], "OPEN")

\* C29: for every prerequisite text whose brackets are balanced and properly
\* nested, wherever commas and and/or operators stand relative to the
\* brackets, the parse never fails with the unclosed-bracket error BRA-1.
C29_BalancedNeverUnclosed ==
    (Constructed /\ Balanced(Tokens)) => parse(Tokens) # Err("BRA-1")

\* Balanced texts fail with BRA-1 only when a comma stands inside a group of
\* the right operand of an operator, or a number stands before a bracket.
BalancedUnclosedOnlyByComma ==
    (Constructed /\ Balanced(Tokens) /\ parse(Tokens) = Err("BRA-1"))
        => (CommaInRightGroup(Tokens) \/ NumberBeforeBracket(Tokens))

\* "COMM1100 or ( COMP1511 , COMP1511 )" has been constructed: the brackets
\* are balanced, the parse failed with BRA-1 and try_new returned None.
C29_CommaInRightGroup ==
    /\ raw = <<w_Prerequisites, w_COMM1100, w_or, w_open, w_COMP1511, w_comma, w_COMP1511, w_close>>
    /\ Constructed
    /\ Balanced(Tokens)
    /\ parse(Tokens) = Err("BRA-1")
    /\ req.res = None

\* ---------------------------------------------------------------------------
\* Level patterns.

\* The decimal digit character of a level 0..9.
DigitOf(n) == CHOOSE c \in AsciiDigit : to_digit(c) = Some(n)

\* The exact codes of ExactInputs whose first number digit is that of level n.
ExactOfLevel(n) == {e \in ExactInputs : e[5] = DigitOf(n)}

\* A pattern with number counter 1 that carries the digit of level n, answers
\* level() with n and matches every exact code of that level whose school it
\* covers.
CarriesLevel(c, school_counter, school, n) ==
    /\ c.num_of_match_school = school_counter
    /\ c.num_of_match_code = 1
    /\ c.course_code[1] = DigitOf(n)
    /\ level(c) = Returned(n)
    /\ \A e \in ExactOfLevel(n) :
           (school_counter = 0 \/ SubSeq(e, 1, 4) = school)
               => is_match(c, CourseCode_from_str(e).v)

\* C30: new_any_school_with_level(L) and new_school_with_level(school, L),
\* for L in 0..9, produce a pattern with number counter 1 whose first number
\* slot is the decimal digit character of L, so that the pattern matches
\* every exact code (of that school, or of any school) whose first number
\* digit is L, and level() returns L.
C30_LevelPatternCarriesDigit ==
    [][ /\ \A n \in 0..9 :
              NewAnySchoolWithLevelLhs(n) => CarriesLevel(lhs'.v, 0, SchoolFiller, n)
        /\ \A school \in Schools, n \in 0..9 :
              NewSchoolWithLevelLhs(school, n) => CarriesLevel(lhs'.v, 4, school, n)
      ]_vars

\* The counters and the fillers of a level pattern are as stated; only the
\* first number slot differs: it holds the character of code point L.
LevelPatternShape ==
    [][ /\ \A n \in LevelArgs :
              NewAnySchoolWithLevelLhs(n) =>
                  /\ lhs'.v.num_of_match_school = 0 /\ lhs'.v.num_of_match_code = 1
                  /\ lhs'.v.school_code = SchoolFiller
                  /\ SubSeq(lhs'.v.course_code, 2, 4) = <<"#", "#", "#">>
                  /\ lhs'.v.course_code[1] = char_from_u32(n)
                  /\ (n \in 0..9 => level(lhs'.v) = Panicked)
                  /\ (n \in 48..57 => level(lhs'.v) = Returned(n - 48))
        /\ \A school \in Schools, n \in LevelArgs :
              NewSchoolWithLevelLhs(school, n) =>
                  /\ lhs'.v.num_of_match_school = 4 /\ lhs'.v.num_of_match_code = 1
                  /\ lhs'.v.school_code = school
                  /\ SubSeq(lhs'.v.course_code, 2, 4) = <<"#", "#", "#">>
                  /\ lhs'.v.course_code[1] = char_from_u32(n)
                  /\ (n \in 0..9 => level(lhs'.v) = Panicked)
      ]_vars

\* new_any_school_with_level(2) has been compared with COMP2511: the first
\* number slot is the character of code point 2, the code is not matched and
\* level() aborts.
C30_LevelTwo ==
    /\ lhs = Some(new_any_school_with_level(2))
    /\ lhs.v.course_code[1] = "<U+2>"
    /\ rhs = CourseCode_from_str(<<"C", "O", "M", "P", "2", "5", "1", "1">>)
    /\ cmp.done
    /\ ~cmp.l_match_r
    /\ cmp.l_level = Panicked

====
